---- MODULE Spec2Model ----
(***************************************************************************)
(* The Mbox of the Alpha 21264 emulator (AXP_21264_Mbox.c): the load queue *)
(* (LQ) and store queue (SQ), their slot allocators, the publication calls *)
(* ReadMem/WriteMem, the cache probe and store forwarding of TryCaches,    *)
(* the scheduler pass Process_Q and Mbox_Init.                             *)
(*                                                                         *)
(* A 64-bit quantity that is only copied and truncated (a store value, a   *)
(* destination value) is a tuple of 8 bytes, least significant first, as   *)
(* the little-endian host lays it out.                                     *)
(***************************************************************************)
EXTENDS Integers, Sequences, FiniteSets, TLC

\* ------------------------------------------------------------------ bounds
\* Length of the LQ and of the SQ (the program's value is larger; the model
\* keeps the queues short).
AXP_MBOX_QUEUE_LEN == 2
\* uniqueIDs the Ibox hands out between two resets.
MaxUID == 2
\* Ibox events kept in the record of raised events.
MaxEvents == 2

\* Indexes of the Dcache and of the duplicate tag store.
AXP_CACHE_ENTRIES == 2
\* Ways of the Dcache.
AXP_2_WAY_CACHE == 2
\* Entries of the DTB.
AXP_TB_LEN == 2
\* Instructions the Ibox gives to the Ebox helpers.
MaxInstr == 3

Slots == 0 .. (AXP_MBOX_QUEUE_LEN - 1)
CacheIndexes == 0 .. (AXP_CACHE_ENTRIES - 1)
CacheWays == 0 .. (AXP_2_WAY_CACHE - 1)
TBEntries == 0 .. (AXP_TB_LEN - 1)
UIDs == 1 .. MaxUID

\* ------------------------------------------------------------------ values
Zero64 == <<0, 0, 0, 0, 0, 0, 0, 0>>
\* The value the store instruction uid writes: its bytes all differ, and
\* differ from those of every other store.
StoreValue(uid) == [k \in 1 .. 8 |-> 16 * uid + k]
\* The content of memory.
MemData == <<240, 241, 242, 243, 244, 245, 246, 247>>

\* The low len bytes of v, the upper bytes zero.
LowBytes(v, len) == [k \in 1 .. 8 |-> IF k <= len THEN v[k] ELSE 0]

\* ------------------------------------------------------------------ inputs
\* Virtual addresses the issue threads use: one mapped to memory, one mapped
\* to an I/O device, one with no translation.
VA_MEM == 1
VA_IO == 2
VA_BAD == 3
VirtAddrs == {VA_MEM, VA_IO, VA_BAD}
PA_MEM == 1
PA_IO == 2

LoadOps == {"LDBU", "LDQ"}
StoreOps == {"STQ"}
\* A len field nobody has written yet holds whatever the memory held.
LenGarbage == {1, 8}

\* Issue threads (the functional units of the Ebox and the Fbox).
NumThreads == 2
Threads == 1 .. NumThreads
NoThread == 0

\* ------------------------------------------------------------------ state
VARIABLES
    lq,         \* cpu->lq[]: the load queue
    sq,         \* cpu->sq[]: the store queue
    lqNext,     \* cpu->lqNext
    sqNext,     \* cpu->sqNext
    call,       \* the call of the Mbox interface just made: its arguments and result
    dcValid,    \* the line of PA_MEM is valid in the Dcache
    bcValid,    \* the line of PA_MEM is in the Bcache
    maf,        \* Miss Address File requests, in the order they were added
    iowb,       \* I/O write buffer requests, in the order they were added
    events,     \* Ibox events raised, in order
    tc,         \* per LQ slot: what the last TryCaches call on it found and called
    crashed,    \* the process died on a wild pointer
    pc,         \* per issue thread: where it is in the call it is making
    retVal,     \* per issue thread: the local retVal of its allocator call
    lqMutex,    \* cpu->lqMutex: the thread holding it, or NoThread
    sqMutex,    \* cpu->sqMutex
    mBoxMutex,  \* cpu->mBoxMutex
    mBoxCondition, \* where the worker is at cpu->mBoxCondition
    lqGrants,   \* per LQ slot: how often GetLQSlot returned it
    sqGrants,   \* per SQ slot: how often GetSQSlot returned it
    einstr,     \* the instruction an Ebox load/store helper is given
    lockFlag,   \* cpu->lockFlag
    lineLocked, \* the locked bit of the line the lock flag was taken for
    mem,        \* the content of memory at the address of that line
    dCache,     \* cpu->dCache[][]: per index and way, valid, state, data zero or not
    dtag,       \* cpu->dtag[][]: per index and way, valid and physTag zero or not
    dtb,        \* cpu->dtb[]: per entry, valid
    dcCtl,      \* cpu->dcCtl.set_en
    dtbAltMode, \* cpu->dtbAltMode.alt_mode
    AXP_HW_LD_LONGWORD \* the value of the macro, which the sources at hand do not define

threadVars == <<pc, retVal, lqMutex, sqMutex, mBoxMutex, mBoxCondition,
               lqGrants, sqGrants>>

eboxVars == <<einstr, lockFlag, lineLocked, mem>>

initVars == <<dCache, dtag, dtb, dcCtl, dtbAltMode, AXP_HW_LD_LONGWORD>>

vars == <<lq, sq, lqNext, sqNext, call, dcValid, bcValid, maf, iowb, events, tc, crashed,
          threadVars, eboxVars, initVars>>

\* instr == NULL
NullInstr ==
    [uniqueID |-> 0, opcode |-> "none", destv |-> Zero64, state |-> "none",
     len_stall |-> 0]

\* No call of the interface was just made.
NoCall == [fn |-> "none", ret |-> 0, slot |-> 0, instr |-> NullInstr, virtAddr |-> 0,
           value |-> Zero64]

\* TryCaches has not run on the slot.
NoTry == [olderStore |-> FALSE, nextOlderStore |-> AXP_MBOX_QUEUE_LEN, calls |-> {},
          state |-> "none", read |-> "none"]

\* uniqueIDs of the instructions the queues refer to.
UsedUIDs == {lq[i].instr.uniqueID : i \in Slots} \cup {sq[i].instr.uniqueID : i \in Slots}

\* --------------------------------------------------------------- Dcache
\* A Dcache line as Mbox_Init leaves it: data zeroed, not valid, Invalid.
CleanLine == [valid |-> FALSE, state |-> "Invalid", data |-> 0]
\* A Dcache line that holds data.
FilledLine == [valid |-> TRUE, state |-> "Ready", data |-> 1]
\* A duplicate-tag entry as Mbox_Init leaves it.
CleanTag == [valid |-> FALSE, physTag |-> 0]
\* A duplicate-tag entry in use.
UsedTag == [valid |-> TRUE, physTag |-> 1]

\* The index and way of the line of PA_MEM; dcValid is the valid bit of that
\* line as the probes of the Dcache see it.
MemIndex == 1
MemWay == 0

\* The Dcache once the line of PA_MEM is valid (v) in it.
DcacheWith(dc, v) ==
    IF v /\ ~dc[MemIndex][MemWay].valid
    THEN [dc EXCEPT ![MemIndex][MemWay] = FilledLine]
    ELSE dc

\* ------------------------------------------------------------ environment
\* AXP_va2pa: the physical address of a virtual address, 0 when the
\* translation faults.
AXP_va2pa(va) == IF va = VA_MEM THEN PA_MEM ELSE IF va = VA_IO THEN PA_IO ELSE 0

AXP_21264_IS_IO_ADDR(pa) == pa = PA_IO

AXP_Dcache_Status(m, va, pa) == IF pa = PA_MEM /\ m.dcValid THEN "HIT" ELSE "MISS"

AXP_21264_Bcache_Status(pa) == IF pa = PA_MEM /\ bcValid THEN "HIT" ELSE "MISS"

\* AXP_DcacheRead: len bytes of the line, zero extended.
AXP_DcacheRead(len) == LowBytes(MemData, len)

\* What a read through a pointer made from a store value can deliver: some
\* content of the host's memory, or no content at all (the process dies).
WildReads == {[ok |-> TRUE, data |-> d] : d \in {MemData, Zero64}}
                \cup {[ok |-> FALSE, data |-> Zero64]}

NoWild == [ok |-> TRUE, data |-> Zero64]

\* AXP_21264_Ibox_Event; the record of events keeps the first MaxEvents.
AXP_21264_Ibox_Event(m, e) ==
    IF Len(m.events) < MaxEvents
    THEN [m EXCEPT !.events = Append(m.events, [uniqueID |-> e.instr.uniqueID,
                                                 va |-> e.virtAddress,
                                                 opcode |-> e.instr.opcode])]
    ELSE m

AXP_21264_Add_MAF(m, type, pa, slot, len) ==
    [m EXCEPT !.maf = Append(m.maf, [type |-> type, pa |-> pa, slot |-> slot, len |-> len])]

AXP_21264_Add_IOWB(m, pa, slot, len) ==
    [m EXCEPT !.iowb = Append(m.iowb, [pa |-> pa, slot |-> slot, len |-> len])]

AXP_21264_CopyBcacheToDcache(m, va, pa) == [m EXCEPT !.dcValid = TRUE]

\* ------------------------------------------------------------ allocators
\* The test with the last slot never handed out.
LQSlotAvailable_OffByOne == lqNext + 1 < AXP_MBOX_QUEUE_LEN

\* if (cpu->lqNext < AXP_MBOX_QUEUE_LEN)
LQSlotAvailable == lqNext < AXP_MBOX_QUEUE_LEN

\* The test with the bound included.
SQSlotAvailable_Inclusive == sqNext <= AXP_MBOX_QUEUE_LEN

\* if (cpu->sqNext < AXP_MBOX_QUEUE_LEN)
SQSlotAvailable == sqNext < AXP_MBOX_QUEUE_LEN

\* The allocator with the state written outside the test of the index.
AXP_21264_Mbox_GetLQSlot_AssignAlways ==
    /\ ~crashed
    /\ call' = [NoCall EXCEPT !.fn = "GetLQSlot",
                              !.ret = IF LQSlotAvailable THEN lqNext ELSE AXP_MBOX_QUEUE_LEN]
    /\ lqNext' = IF LQSlotAvailable THEN lqNext + 1 ELSE lqNext
    /\ lq' = [lq EXCEPT ![lqNext % AXP_MBOX_QUEUE_LEN].state = "Assigned"]
    /\ UNCHANGED <<sq, sqNext, dcValid, bcValid, maf, iowb, events, tc, crashed,
                   threadVars, eboxVars, initVars>>

AXP_21264_Mbox_GetLQSlot ==
    /\ ~crashed
    /\ IF LQSlotAvailable
       THEN /\ call' = [NoCall EXCEPT !.fn = "GetLQSlot", !.ret = lqNext]
            /\ lqNext' = lqNext + 1
            /\ lq' = [lq EXCEPT ![lqNext].state = "Assigned"]
       ELSE /\ call' = [NoCall EXCEPT !.fn = "GetLQSlot", !.ret = AXP_MBOX_QUEUE_LEN]
            /\ UNCHANGED <<lqNext, lq>>
    /\ UNCHANGED <<sq, sqNext, dcValid, bcValid, maf, iowb, events, tc, crashed,
                   threadVars, eboxVars, initVars>>

\* An allocator that starts again at slot 0 when the queue is full.
AXP_21264_Mbox_GetSQSlot_Wrap ==
    /\ ~crashed
    /\ IF SQSlotAvailable
       THEN /\ call' = [NoCall EXCEPT !.fn = "GetSQSlot", !.ret = sqNext]
            /\ sqNext' = sqNext + 1
            /\ sq' = [sq EXCEPT ![sqNext].state = "Assigned"]
       ELSE /\ call' = [NoCall EXCEPT !.fn = "GetSQSlot", !.ret = 0]
            /\ sqNext' = 1
            /\ sq' = [sq EXCEPT ![0].state = "Assigned"]
    /\ UNCHANGED <<lq, lqNext, dcValid, bcValid, maf, iowb, events, tc, crashed,
                   threadVars, eboxVars, initVars>>

AXP_21264_Mbox_GetSQSlot ==
    /\ ~crashed
    /\ IF SQSlotAvailable
       THEN /\ call' = [NoCall EXCEPT !.fn = "GetSQSlot", !.ret = sqNext]
            /\ sqNext' = sqNext + 1
            /\ sq' = [sq EXCEPT ![sqNext].state = "Assigned"]
       ELSE /\ call' = [NoCall EXCEPT !.fn = "GetSQSlot", !.ret = AXP_MBOX_QUEUE_LEN]
            /\ UNCHANGED <<sqNext, sq>>
    /\ UNCHANGED <<lq, lqNext, dcValid, bcValid, maf, iowb, events, tc, crashed,
                   threadVars, eboxVars, initVars>>

\* ----------------------------------------------------------- publication
\* The entry of a ReadMem that forgets the address.
ReadMemEntry_NoAddr(e, instr, virtAddr) ==
    [e EXCEPT !.instr = instr, !.state = "Initial"]

\* The entry ReadMem leaves in the slot.
ReadMemEntry(e, instr, virtAddr) ==
    [e EXCEPT !.virtAddress = virtAddr, !.instr = instr, !.state = "Initial"]

AXP_21264_Mbox_ReadMem(instr, slot, virtAddr) ==
    /\ lq' = [lq EXCEPT ![slot] = ReadMemEntry(lq[slot], instr, virtAddr)]
    /\ call' = [NoCall EXCEPT !.fn = "ReadMem", !.slot = slot, !.instr = instr,
                              !.virtAddr = virtAddr]
    /\ UNCHANGED <<sq, lqNext, sqNext, dcValid, bcValid, maf, iowb, events, tc, crashed,
                   threadVars, eboxVars, initVars>>

\* The entry of a WriteMem that forgets the instruction.
WriteMemEntry_NoInstr(e, instr, virtAddr, value) ==
    [e EXCEPT !.value = value, !.virtAddress = virtAddr, !.state = "Initial"]

\* The entry WriteMem leaves in the slot.
WriteMemEntry(e, instr, virtAddr, value) ==
    [e EXCEPT !.value = value, !.virtAddress = virtAddr, !.instr = instr,
              !.state = "Initial"]

AXP_21264_Mbox_WriteMem(instr, slot, virtAddr, value) ==
    /\ sq' = [sq EXCEPT ![slot] = WriteMemEntry(sq[slot], instr, virtAddr, value)]
    /\ call' = [NoCall EXCEPT !.fn = "WriteMem", !.slot = slot, !.instr = instr,
                              !.virtAddr = virtAddr, !.value = value]
    /\ UNCHANGED <<lq, lqNext, sqNext, dcValid, bcValid, maf, iowb, events, tc, crashed,
                   threadVars, eboxVars, initVars>>

\* The instruction descriptors the Ebox and Fbox hand to the Mbox.
NewInstr(uid, op) ==
    [uniqueID |-> uid, opcode |-> op, destv |-> Zero64, state |-> "Executing",
     len_stall |-> 0]

\* An issue thread publishes the load whose slot it reserved.
IssueLoad ==
    \E slot \in Slots, uid \in UIDs \ UsedUIDs, op \in LoadOps, va \in VirtAddrs :
        /\ ~crashed
        /\ lq[slot].state = "Assigned"
        /\ AXP_21264_Mbox_ReadMem(NewInstr(uid, op), slot, va)

\* An issue thread publishes the store whose slot it reserved.
IssueStore ==
    \E slot \in Slots, uid \in UIDs \ UsedUIDs, op \in StoreOps, va \in VirtAddrs :
        /\ ~crashed
        /\ sq[slot].state = "Assigned"
        /\ AXP_21264_Mbox_WriteMem(NewInstr(uid, op), slot, va, StoreValue(uid))

\* ------------------------------------------------------------- TryCaches
\* The SQ entries the forwarding scan looks deeper at.
SQInProcess(S) == S.state \in {"Initial", "SQWritePending", "SQComplete"}

\* The age test of the scan, as the code writes it.
AgeTest(L, S) == L.instr.uniqueID < S.instr.uniqueID

\* A test that takes a store of any width.
CanSource_AnyLen(L, S) ==
    /\ L.virtAddress = S.virtAddress
    /\ AgeTest(L, S)

\* The load can be sourced from the store.
CanSource(L, S) ==
    /\ L.virtAddress = S.virtAddress
    /\ L.len <= S.len
    /\ AgeTest(L, S)

\* The scan of the SQ from slot ii on: the locals olderStore and
\* nextOlderStore after the loop.
RECURSIVE ScanSQ(_, _, _, _)
ScanSQ(L, ii, olderStore, nextOlderStore) ==
    IF ii = AXP_MBOX_QUEUE_LEN
    THEN [olderStore |-> olderStore, nextOlderStore |-> nextOlderStore]
    ELSE IF SQInProcess(sq[ii]) /\ CanSource(L, sq[ii])
         THEN IF olderStore
                  /\ sq[ii].instr.uniqueID > sq[nextOlderStore].instr.uniqueID
              THEN ScanSQ(L, ii + 1, olderStore, ii)
              ELSE IF ~olderStore
                   THEN ScanSQ(L, ii + 1, TRUE, ii)
                   ELSE ScanSQ(L, ii + 1, olderStore, nextOlderStore)
         ELSE ScanSQ(L, ii + 1, olderStore, nextOlderStore)

\* The switch on the load's len that copies from the store into destv, which
\* was zeroed: width 1 copies the low byte of the value; the other widths
\* read through the value taken as a pointer (w is what that read delivers).
ForwardedValue(len, value, w) ==
    IF len = 1 THEN LowBytes(value, 1)
    ELSE IF len \in {2, 4, 8} THEN LowBytes(w.data, len)
    ELSE Zero64

\* The read through the value taken as a pointer kills the process.
ForwardCrashes(len, w) == len \in {2, 4, 8} /\ ~w.ok

\* A forwarding branch that asks the Dcache for its status all the same.
TryCachesForward_Probing(m, entry, f, w) ==
    [m EXCEPT !.lq[entry].instr.destv =
                  ForwardedValue(m.lq[entry].len, sq[f.nextOlderStore].value, w),
              !.lq[entry].state = "LQComplete",
              !.tc[entry].calls = @ \cup {"Dcache_Status"}]

\* The branch that sources the load from the store found.
TryCachesForward(m, entry, f, w) ==
    LET L == m.lq[entry]
        S == sq[f.nextOlderStore]
    IN  IF ForwardCrashes(L.len, w)
        THEN [m EXCEPT !.crashed = TRUE]
        ELSE [m EXCEPT !.lq[entry].instr.destv = ForwardedValue(L.len, S.value, w),
                       !.lq[entry].state = "LQComplete"]

\* A read that ignores the width of the load.
TryCachesRead_Quad(m, entry) ==
    [m EXCEPT !.lq[entry].instr.destv = AXP_DcacheRead(8),
              !.lq[entry].state = "LQComplete",
              !.tc[entry].calls = @ \cup {"DcacheRead"},
              !.tc[entry].read = "ok"]

\* The read out of the Dcache after a hit: destv is zeroed, AXP_DcacheRead
\* fills it when it succeeds, its return value is not looked at, and the
\* entry is marked LQComplete.
TryCachesRead(m, entry) ==
    [m EXCEPT !.lq[entry].instr.destv =
                  IF m.readFails THEN Zero64 ELSE AXP_DcacheRead(m.lq[entry].len),
              !.lq[entry].state = "LQComplete",
              !.tc[entry].calls = @ \cup {"DcacheRead"},
              !.tc[entry].read = IF m.readFails THEN "failed" ELSE "ok"]

\* A probe that takes every line for present.
TryCachesProbe_AlwaysHit(m, entry) == TryCachesRead(m, entry)

\* The branch that probes the Dcache and the Bcache.
TryCachesProbe(m, entry) ==
    LET L == m.lq[entry]
        m1 == [m EXCEPT !.tc[entry].calls = @ \cup {"Dcache_Status"}]
        m2 == [m1 EXCEPT !.tc[entry].calls = @ \cup {"Bcache_Status"}]
    IN  IF AXP_Dcache_Status(m, L.virtAddress, L.physAddress) # "HIT"
        THEN IF AXP_21264_Bcache_Status(L.physAddress) # "HIT"
             THEN AXP_21264_Add_MAF(
                      [m2 EXCEPT !.tc[entry].calls = @ \cup {"Add_MAF"}],
                      "LDx", L.physAddress, entry, L.len)
             ELSE TryCachesRead(
                      AXP_21264_CopyBcacheToDcache(
                          [m2 EXCEPT !.tc[entry].calls = @ \cup {"CopyBcacheToDcache"}],
                          L.virtAddress, L.physAddress),
                      entry)
        ELSE TryCachesRead(m1, entry)

\* tc[entry] records the locals of the call, the functions it called, what
\* AXP_DcacheRead returned and the state of the entry at its return.
AXP_21264_Mbox_TryCaches(m, entry, w) ==
    LET f == ScanSQ(m.lq[entry], 0, FALSE, AXP_MBOX_QUEUE_LEN)
        m1 == [m EXCEPT !.tc[entry] = [olderStore |-> f.olderStore,
                                       nextOlderStore |-> f.nextOlderStore,
                                       calls |-> {},
                                       state |-> "none",
                                       read |-> "none"]]
        r == IF ~f.olderStore
             THEN TryCachesProbe(m1, entry)
             ELSE TryCachesForward(m1, entry, f, w)
    IN  [r EXCEPT !.tc[entry].state = r.lq[entry].state]

\* ---------------------------------------------------------------- LQ_Init
\* The switch on the opcode that sets the length of the load; an opcode the
\* switch does not list leaves len as it was.
LoadLen(e) ==
    CASE e.instr.opcode = "LDBU" -> 1
      [] e.instr.opcode = "LDW_U" -> 2
      [] e.instr.opcode \in {"LDF", "LDS", "LDL", "LDL_L"} -> 4
      [] e.instr.opcode \in {"LDA", "LDAH", "LDQ_U", "LDG", "LDT", "LDQ", "LDQ_L"} -> 8
      [] e.instr.opcode = "HW_LD" -> IF AXP_HW_LD_LONGWORD # 0 THEN 4 ELSE 8
      [] OTHER -> e.len

\* instr->len_stall after the switch: the condition of the HW_LD case is the
\* assignment len_stall = AXP_HW_LD_LONGWORD.
LoadLenStall(e) ==
    IF e.instr.opcode = "HW_LD" THEN AXP_HW_LD_LONGWORD ELSE e.instr.len_stall

\* An LQ_Init that sends the I/O loads through the caches as well, before
\* it hands them to the Cbox.
AXP_21264_Mbox_LQ_Init_ProbeIO(m, entry, w) ==
    LET pa == AXP_va2pa(m.lq[entry].virtAddress)
        m1 == [m EXCEPT !.lq[entry].len = LoadLen(m.lq[entry]),
                        !.lq[entry].instr.len_stall = LoadLenStall(m.lq[entry]),
                        !.lq[entry].physAddress = pa]
    IN  IF pa # 0
        THEN LET m2 == [m1 EXCEPT !.lq[entry].IOflag = AXP_21264_IS_IO_ADDR(pa),
                                  !.lq[entry].state = "LQReadPending"]
                 m3 == AXP_21264_Mbox_TryCaches(m2, entry, w)
             IN  IF ~m2.lq[entry].IOflag
                 THEN m3
                 ELSE AXP_21264_Add_IOWB(m3, pa, entry, m3.lq[entry].len)
        ELSE AXP_21264_Ibox_Event(m1, m1.lq[entry])

AXP_21264_Mbox_LQ_Init(m, entry, w) ==
    LET pa == AXP_va2pa(m.lq[entry].virtAddress)
        m1 == [m EXCEPT !.lq[entry].len = LoadLen(m.lq[entry]),
                        !.lq[entry].instr.len_stall = LoadLenStall(m.lq[entry]),
                        !.lq[entry].physAddress = pa]
    IN  IF pa # 0
        THEN LET m2 == [m1 EXCEPT !.lq[entry].IOflag = AXP_21264_IS_IO_ADDR(pa),
                                  !.lq[entry].state = "LQReadPending"]
             IN  IF ~m2.lq[entry].IOflag
                 THEN AXP_21264_Mbox_TryCaches(m2, entry, w)
                 ELSE AXP_21264_Add_IOWB(m2, pa, entry, m2.lq[entry].len)
        ELSE AXP_21264_Ibox_Event(m1, m1.lq[entry])

\* A handler that asks the Cbox for the line of the pending load once more.
AXP_21264_Mbox_LQ_Pending_Requeue(m, entry) ==
    AXP_21264_Add_MAF(m, "LDx", m.lq[entry].physAddress, entry, m.lq[entry].len)

\* A handler that starts the pending load over.
AXP_21264_Mbox_LQ_Pending_Restart(m, entry) == [m EXCEPT !.lq[entry].state = "Initial"]

\* The stub.
AXP_21264_Mbox_LQ_Pending(m, entry) == m

\* Hands the completed load back: the instruction can retire, the slot is free.
AXP_21264_Mbox_LQ_Complete(m, entry) ==
    [m EXCEPT !.lq[entry].instr.state = "WaitingRetirement",
              !.lq[entry].state = "QNotInUse"]

\* ---------------------------------------------------------------- SQ side
AXP_21264_Mbox_SQ_Init(m, entry) ==
    LET pa == AXP_va2pa(m.sq[entry].virtAddress)
    IN  IF pa # 0
        THEN [m EXCEPT !.sq[entry].physAddress = pa,
                       !.sq[entry].IOflag = AXP_21264_IS_IO_ADDR(pa),
                       !.sq[entry].state = "SQWritePending"]
        ELSE [AXP_21264_Ibox_Event(m, m.sq[entry]) EXCEPT
                       !.sq[entry].physAddress = pa,
                       !.sq[entry].state = "QNotInUse"]

AXP_21264_Mbox_SQ_Pending(m, entry) == m

AXP_21264_Mbox_SQ_Complete(m, entry) ==
    [m EXCEPT !.sq[entry].state = "QNotInUse"]

\* -------------------------------------------------------------- Process_Q
\* An iteration that leaves a completed entry for a later pass.
LQ_Step_NoComplete(m, ii, w) ==
    CASE m.lq[ii].state = "Initial" -> AXP_21264_Mbox_LQ_Init(m, ii, w)
      [] m.lq[ii].state = "LQReadPending" -> AXP_21264_Mbox_LQ_Pending(m, ii)
      [] OTHER -> m

\* One iteration of the loop over the LQ.
LQ_Step(m, ii, w) ==
    LET m1 == CASE m.lq[ii].state = "Initial" -> AXP_21264_Mbox_LQ_Init(m, ii, w)
                [] m.lq[ii].state = "LQReadPending" -> AXP_21264_Mbox_LQ_Pending(m, ii)
                [] OTHER -> m
    IN  IF m1.crashed THEN m1
        ELSE IF m1.lq[ii].state = "LQComplete"
             THEN AXP_21264_Mbox_LQ_Complete(m1, ii)
             ELSE m1

\* The loop over the LQ; m.visits records the iterations in their order.
RECURSIVE LQ_Loop(_, _, _)
LQ_Loop(m, ii, wild) ==
    IF ii = AXP_MBOX_QUEUE_LEN \/ m.crashed THEN m
    ELSE LQ_Loop(LQ_Step([m EXCEPT !.visits = Append(@, <<"LQ", ii>>)], ii,
                         IF ii \in DOMAIN wild THEN wild[ii] ELSE NoWild),
                 ii + 1, wild)

\* One iteration of the loop over the SQ.
SQ_Step(m, ii) ==
    CASE m.sq[ii].state = "Initial" -> AXP_21264_Mbox_SQ_Init(m, ii)
      [] m.sq[ii].state = "LQReadPending" -> AXP_21264_Mbox_SQ_Pending(m, ii)
      [] m.sq[ii].state = "LQReadable" -> AXP_21264_Mbox_SQ_Complete(m, ii)
      [] OTHER -> m

\* The loop over the SQ.
RECURSIVE SQ_Loop(_, _)
SQ_Loop(m, ii) ==
    IF ii = AXP_MBOX_QUEUE_LEN \/ m.crashed THEN m
    ELSE SQ_Loop(SQ_Step([m EXCEPT !.visits = Append(@, <<"SQ", ii>>)], ii), ii + 1)

\* The part of the state a scheduler pass works on; readFails tells whether
\* the calls of AXP_DcacheRead made by the pass return false.
Machine ==
    [lq |-> lq, sq |-> sq, maf |-> maf, iowb |-> iowb, events |-> events,
     dcValid |-> dcValid, tc |-> tc, crashed |-> FALSE, readFails |-> FALSE,
     visits |-> <<>>]

\* The LQ slots whose handling can read through a wild pointer: the loads
\* TryCaches is called for.
WildSlots == {i \in Slots : lq[i].state = "Initial"}

\* A pass that walks the SQ before the LQ.
PassResult_SQFirst(wild) == LQ_Loop(SQ_Loop(Machine, 0), 0, wild)

\* The state after one pass; wild[ii] is what a read through a wild pointer
\* delivers while LQ slot ii is handled.
PassResult(wild) == SQ_Loop(LQ_Loop(Machine, 0, wild), 0)

AXP_21264_Mbox_Process_Q ==
    \E wild \in [WildSlots -> WildReads] :
        LET r == PassResult(wild)
        IN  /\ ~crashed
            /\ lq' = r.lq
            /\ sq' = r.sq
            /\ maf' = r.maf
            /\ iowb' = r.iowb
            /\ events' = r.events
            /\ dcValid' = r.dcValid
            /\ dCache' = DcacheWith(dCache, r.dcValid)
            /\ tc' = r.tc
            /\ crashed' = r.crashed
            /\ call' = [NoCall EXCEPT !.fn = "Process_Q"]
            /\ UNCHANGED <<lqNext, sqNext, bcValid, threadVars, eboxVars,
                           dtag, dtb, dcCtl, dtbAltMode, AXP_HW_LD_LONGWORD>>

\* A pass during which AXP_DcacheRead fails: it returns false and leaves the
\* destination as it was.
AXP_21264_Mbox_Process_Q_ReadFails ==
    \E wild \in [WildSlots -> WildReads] :
        LET r == SQ_Loop(LQ_Loop([Machine EXCEPT !.readFails = TRUE], 0, wild), 0)
        IN  /\ ~crashed
            /\ lq' = r.lq
            /\ sq' = r.sq
            /\ maf' = r.maf
            /\ iowb' = r.iowb
            /\ events' = r.events
            /\ dcValid' = r.dcValid
            /\ dCache' = DcacheWith(dCache, r.dcValid)
            /\ tc' = r.tc
            /\ crashed' = r.crashed
            /\ call' = [NoCall EXCEPT !.fn = "Process_Q"]
            /\ UNCHANGED <<lqNext, sqNext, bcValid, threadVars, eboxVars,
                           dtag, dtb, dcCtl, dtbAltMode, AXP_HW_LD_LONGWORD>>

\* --------------------------------------------------------------- Ibox side
\* The Ibox tells the Mbox that the instruction owning the store has retired.
RetireStore ==
    \E slot \in Slots :
        /\ ~crashed
        /\ sq[slot].state = "SQWritePending"
        /\ sq' = [sq EXCEPT ![slot].state = "SQReady", ![slot].instr.state = "Retired"]
        /\ call' = NoCall
        /\ UNCHANGED <<lq, lqNext, sqNext, dcValid, bcValid, maf, iowb, events, tc, crashed,
                   threadVars, eboxVars, initVars>>

\* --------------------------------------------------------------- Cbox side
\* The Cbox signals that the oldest request of the MAF is complete: the line
\* it asked for is in the Dcache.
MAFComplete ==
    /\ ~crashed
    /\ maf # <<>>
    /\ maf' = Tail(maf)
    /\ dcValid' = TRUE
    /\ dCache' = DcacheWith(dCache, TRUE)
    /\ call' = NoCall
    /\ UNCHANGED <<lq, sq, lqNext, sqNext, bcValid, iowb, events, tc, crashed,
                   threadVars, eboxVars, dtag, dtb, dcCtl, dtbAltMode, AXP_HW_LD_LONGWORD>>

\* -------------------------------------------------------------- Mbox_Init
\* An initialisation of the queues that leaves the state of an entry alone.
InitEntry_KeepState(e) ==
    [e EXCEPT !.value = Zero64, !.virtAddress = 0, !.instr = NullInstr,
              !.IOflag = FALSE, !.lockCond = FALSE]

\* What the loops over the LQ and the SQ leave in an entry.
InitEntry(e) ==
    [e EXCEPT !.value = Zero64, !.virtAddress = 0, !.instr = NullInstr,
              !.state = "QNotInUse", !.IOflag = FALSE, !.lockCond = FALSE]

\* for (ii = 1; ...): the first index the loops over the Dcache and over the
\* duplicate tags handle.
DcacheInitFirst == 1

\* The Dcache after the loop over it.
InitDcache(dc) ==
    [ii \in CacheIndexes |->
        IF ii >= DcacheInitFirst THEN [jj \in CacheWays |-> CleanLine] ELSE dc[ii]]

\* The duplicate tags after the loop over them.
InitDtag(dt) ==
    [ii \in CacheIndexes |->
        IF ii >= DcacheInitFirst THEN [jj \in CacheWays |-> CleanTag] ELSE dt[ii]]

\* The whole function. The MAF is the sequence of the slots whose type is not
\* MAFNotInUse; the function returns false (0) for success.
AXP_21264_Mbox_Init ==
    /\ ~crashed
    /\ dCache' = InitDcache(dCache)
    /\ dtag' = InitDtag(dtag)
    /\ dcValid' = InitDcache(dCache)[MemIndex][MemWay].valid
    /\ lq' = [i \in Slots |-> InitEntry(lq[i])]
    /\ sq' = [i \in Slots |-> InitEntry(sq[i])]
    /\ lqNext' = 0
    /\ sqNext' = 0
    /\ dtb' = [ii \in TBEntries |-> FALSE]
    /\ maf' = <<>>
    /\ dtbAltMode' = "KERNEL"
    /\ dcCtl' = 3
    /\ tc' = [i \in Slots |-> NoTry]
    /\ call' = [NoCall EXCEPT !.fn = "Mbox_Init", !.ret = 0]
    /\ UNCHANGED <<bcValid, iowb, events, crashed, threadVars, eboxVars,
                   AXP_HW_LD_LONGWORD>>

\* ----------------------------------------------------------- specification
\* No instruction was given to the Ebox helpers yet.
NoEInstr ==
    [uniqueID |-> 0, opcode |-> "none", src1v |-> 0, displacement |-> 0, destv |-> 0,
     state |-> "none", clearLockPending |-> FALSE, lockFlagPending |-> FALSE]

\* The state after construction: Mbox_Init has run on a CPU structure whose
\* Dcache, duplicate tags and requests were clear; the len and physAddress
\* fields, which it does not write, hold what the memory held.
\* Memory the CPU structure is made of before anybody wrote to it.
RawEntry(len, pa) ==
    [state |-> "QNotInUse", virtAddress |-> 0, physAddress |-> pa, len |-> len,
     value |-> Zero64, instr |-> NullInstr, IOflag |-> FALSE, lockCond |-> FALSE]

\* The state after construction but for the value of AXP_HW_LD_LONGWORD.
InitMbox ==
    /\ \E len \in LenGarbage : lq = [i \in Slots |-> RawEntry(len, 0)]
    /\ \E len \in LenGarbage : sq = [i \in Slots |-> RawEntry(len, 0)]
    /\ lqNext = 0
    /\ sqNext = 0
    /\ call = NoCall
    /\ dcValid = FALSE
    /\ bcValid \in BOOLEAN
    /\ maf = <<>>
    /\ iowb = <<>>
    /\ events = <<>>
    /\ tc = [i \in Slots |-> NoTry]
    /\ crashed = FALSE
    /\ pc = [t \in Threads |-> "idle"]
    /\ retVal = [t \in Threads |-> AXP_MBOX_QUEUE_LEN]
    /\ lqMutex = NoThread
    /\ sqMutex = NoThread
    /\ mBoxMutex = NoThread
    /\ mBoxCondition = "waiting"
    /\ lqGrants = [i \in Slots |-> 0]
    /\ sqGrants = [i \in Slots |-> 0]
    /\ einstr = NoEInstr
    /\ lockFlag = FALSE
    /\ lineLocked = FALSE
    /\ mem = 0
    /\ dCache = [ii \in CacheIndexes |-> [jj \in CacheWays |-> CleanLine]]
    /\ dtag = [ii \in CacheIndexes |-> [jj \in CacheWays |-> CleanTag]]
    /\ dtb = [ii \in TBEntries |-> FALSE]
    /\ dcCtl = 3
    /\ dtbAltMode = "KERNEL"

\* No load of the specifications but SpecHwLd reads the macro.
Init == InitMbox /\ AXP_HW_LD_LONGWORD = 0

Next ==
    \/ AXP_21264_Mbox_GetLQSlot
    \/ AXP_21264_Mbox_GetSQSlot
    \/ IssueLoad
    \/ IssueStore
    \/ AXP_21264_Mbox_Process_Q
    \/ RetireStore
    \/ MAFComplete

Spec == Init /\ [][Next]_vars

\* ================================================== load-locked loads
\* The same calls with the issue threads publishing load-locked loads too.
LockedLoadOps == {"LDL_L", "LDQ_L"}

\* An issue thread publishes the load-locked load whose slot it reserved.
IssueLoadLocked ==
    \E slot \in Slots, uid \in UIDs \ UsedUIDs, op \in LockedLoadOps, va \in VirtAddrs :
        /\ ~crashed
        /\ lq[slot].state = "Assigned"
        /\ AXP_21264_Mbox_ReadMem(NewInstr(uid, op), slot, va)

NextLocked ==
    \/ AXP_21264_Mbox_GetLQSlot
    \/ AXP_21264_Mbox_GetSQSlot
    \/ IssueLoad
    \/ IssueLoadLocked
    \/ IssueStore
    \/ AXP_21264_Mbox_Process_Q
    \/ RetireStore
    \/ MAFComplete

SpecLocked == Init /\ [][NextLocked]_vars

\* ================================================ failing Dcache reads
\* The same calls with passes during which AXP_DcacheRead fails.
NextReadFails ==
    \/ AXP_21264_Mbox_GetLQSlot
    \/ AXP_21264_Mbox_GetSQSlot
    \/ IssueLoad
    \/ IssueStore
    \/ AXP_21264_Mbox_Process_Q
    \/ AXP_21264_Mbox_Process_Q_ReadFails
    \/ RetireStore
    \/ MAFComplete

SpecReadFails == Init /\ [][NextReadFails]_vars

\* ================================================= initialisation alone
\* AXP_21264_Mbox_Init called on a CPU structure whose memory holds anything:
\* queue entries in any state, indexes anywhere, Dcache lines and duplicate
\* tags in use, valid DTB entries, a request in the MAF, any IPR values.
UsedInstr ==
    [uniqueID |-> 1, opcode |-> "LDQ", destv |-> MemData, state |-> "Executing",
     len_stall |-> 0]

GarbageEntries ==
    { RawEntry(1, 0),
      [state |-> "Initial", virtAddress |-> VA_MEM, physAddress |-> PA_MEM, len |-> 8,
       value |-> MemData, instr |-> UsedInstr, IOflag |-> TRUE, lockCond |-> TRUE],
      [state |-> "Assigned", virtAddress |-> VA_IO, physAddress |-> PA_IO, len |-> 1,
       value |-> Zero64, instr |-> NullInstr, IOflag |-> FALSE, lockCond |-> FALSE] }

GarbageRequest == [type |-> "LDx", pa |-> PA_MEM, slot |-> 0, len |-> 8]

InitRaw ==
    /\ \E e \in GarbageEntries : lq = [i \in Slots |-> e]
    /\ \E e \in GarbageEntries : sq = [i \in Slots |-> e]
    /\ lqNext \in 0 .. AXP_MBOX_QUEUE_LEN
    /\ sqNext \in 0 .. AXP_MBOX_QUEUE_LEN
    /\ \E used \in [CacheIndexes -> BOOLEAN] :
          /\ dCache = [ii \in CacheIndexes |->
                         [jj \in CacheWays |-> IF used[ii] THEN FilledLine ELSE CleanLine]]
          /\ dtag = [ii \in CacheIndexes |->
                       [jj \in CacheWays |-> IF used[ii] THEN UsedTag ELSE CleanTag]]
          /\ dcValid = used[MemIndex]
    /\ dtb \in [TBEntries -> BOOLEAN]
    /\ maf \in {<<>>, <<GarbageRequest>>}
    /\ dcCtl \in {0, 3}
    /\ dtbAltMode \in {"KERNEL", "USER"}
    /\ AXP_HW_LD_LONGWORD = 0
    /\ bcValid = FALSE
    /\ call = NoCall
    /\ iowb = <<>>
    /\ events = <<>>
    /\ tc = [i \in Slots |-> NoTry]
    /\ crashed = FALSE
    /\ pc = [t \in Threads |-> "idle"]
    /\ retVal = [t \in Threads |-> AXP_MBOX_QUEUE_LEN]
    /\ lqMutex = NoThread
    /\ sqMutex = NoThread
    /\ mBoxMutex = NoThread
    /\ mBoxCondition = "waiting"
    /\ lqGrants = [i \in Slots |-> 0]
    /\ sqGrants = [i \in Slots |-> 0]
    /\ einstr = NoEInstr
    /\ lockFlag = FALSE
    /\ lineLocked = FALSE
    /\ mem = 0

NextInit ==
    \/ AXP_21264_Mbox_Init

SpecInit == InitRaw /\ [][NextInit]_vars

\* =============================================== the calls, step by step
\* The same calls with every access to the shared structure a step of its
\* own, made by several issue threads at once.
dataVars == <<call, dcValid, bcValid, maf, iowb, events, tc, crashed>>

\* The addresses the issue threads use.
ConcAddrs == {VA_MEM}

\* A lock that lets everybody in.
MutexFree_NoExclusion(mutex) == TRUE

\* pthread_mutex_lock returns when nobody holds the mutex.
MutexFree(mutex) == mutex = NoThread

\* u32 retVal = AXP_MBOX_QUEUE_LEN; pthread_mutex_lock(&cpu->lqMutex);
GetLQSlot_Lock(t) ==
    /\ ~crashed
    /\ pc[t] = "idle"
    /\ MutexFree(lqMutex)
    /\ lqMutex' = t
    /\ retVal' = [retVal EXCEPT ![t] = AXP_MBOX_QUEUE_LEN]
    /\ pc' = [pc EXCEPT ![t] = "lq_test"]
    /\ UNCHANGED <<lq, sq, lqNext, sqNext, dataVars, eboxVars, initVars, mBoxCondition,
                   sqMutex, mBoxMutex, lqGrants, sqGrants>>

\* if (cpu->lqNext < AXP_MBOX_QUEUE_LEN)
GetLQSlot_Test(t) ==
    /\ ~crashed
    /\ pc[t] = "lq_test"
    /\ pc' = [pc EXCEPT ![t] = IF LQSlotAvailable THEN "lq_read" ELSE "lq_unlock"]
    /\ UNCHANGED <<lq, sq, lqNext, sqNext, dataVars, eboxVars, initVars, mBoxCondition,
                   retVal, lqMutex, sqMutex, mBoxMutex,
                   lqGrants, sqGrants>>

\* retVal = cpu->lqNext++: the read
GetLQSlot_Read(t) ==
    /\ ~crashed
    /\ pc[t] = "lq_read"
    /\ retVal' = [retVal EXCEPT ![t] = lqNext]
    /\ pc' = [pc EXCEPT ![t] = "lq_incr"]
    /\ UNCHANGED <<lq, sq, lqNext, sqNext, dataVars, eboxVars, initVars, mBoxCondition,
                   lqMutex, sqMutex, mBoxMutex,
                   lqGrants, sqGrants>>

\* retVal = cpu->lqNext++: the write
GetLQSlot_Incr(t) ==
    /\ ~crashed
    /\ pc[t] = "lq_incr"
    /\ lqNext' = retVal[t] + 1
    /\ pc' = [pc EXCEPT ![t] = "lq_assign"]
    /\ UNCHANGED <<lq, sq, sqNext, dataVars, eboxVars, initVars, mBoxCondition,
                   retVal, lqMutex, sqMutex, mBoxMutex,
                   lqGrants, sqGrants>>

\* cpu->lq[retVal].state = Assigned;
GetLQSlot_Assign(t) ==
    /\ ~crashed
    /\ pc[t] = "lq_assign"
    /\ lq' = [lq EXCEPT ![retVal[t]].state = "Assigned"]
    /\ pc' = [pc EXCEPT ![t] = "lq_unlock"]
    /\ UNCHANGED <<sq, lqNext, sqNext, dataVars, eboxVars, initVars, mBoxCondition,
                   retVal, lqMutex, sqMutex, mBoxMutex,
                   lqGrants, sqGrants>>

\* An allocator that returns without unlocking lqMutex.
GetLQSlot_Unlock_KeepLock(t) ==
    /\ ~crashed
    /\ pc[t] = "lq_unlock"
    /\ pc' = [pc EXCEPT ![t] = "lq_ret"]
    /\ lqGrants' = IF retVal[t] \in Slots
                   THEN [lqGrants EXCEPT ![retVal[t]] = @ + 1]
                   ELSE lqGrants
    /\ UNCHANGED <<lq, sq, lqNext, sqNext, dataVars, eboxVars, initVars, mBoxCondition,
                   retVal, lqMutex, sqMutex, mBoxMutex, sqGrants>>

\* pthread_mutex_unlock(&cpu->lqMutex); return(retVal);
GetLQSlot_Unlock(t) ==
    /\ ~crashed
    /\ pc[t] = "lq_unlock"
    /\ lqMutex' = NoThread
    /\ pc' = [pc EXCEPT ![t] = "lq_ret"]
    /\ lqGrants' = IF retVal[t] \in Slots
                   THEN [lqGrants EXCEPT ![retVal[t]] = @ + 1]
                   ELSE lqGrants
    /\ UNCHANGED <<lq, sq, lqNext, sqNext, dataVars, eboxVars, initVars, mBoxCondition,
                   retVal, sqMutex, mBoxMutex, sqGrants>>

GetSQSlot_Lock(t) ==
    /\ ~crashed
    /\ pc[t] = "idle"
    /\ MutexFree(sqMutex)
    /\ sqMutex' = t
    /\ retVal' = [retVal EXCEPT ![t] = AXP_MBOX_QUEUE_LEN]
    /\ pc' = [pc EXCEPT ![t] = "sq_test"]
    /\ UNCHANGED <<lq, sq, lqNext, sqNext, dataVars, eboxVars, initVars, mBoxCondition,
                   lqMutex, mBoxMutex, lqGrants, sqGrants>>

GetSQSlot_Test(t) ==
    /\ ~crashed
    /\ pc[t] = "sq_test"
    /\ pc' = [pc EXCEPT ![t] = IF SQSlotAvailable THEN "sq_read" ELSE "sq_unlock"]
    /\ UNCHANGED <<lq, sq, lqNext, sqNext, dataVars, eboxVars, initVars, mBoxCondition,
                   retVal, lqMutex, sqMutex, mBoxMutex,
                   lqGrants, sqGrants>>

GetSQSlot_Read(t) ==
    /\ ~crashed
    /\ pc[t] = "sq_read"
    /\ retVal' = [retVal EXCEPT ![t] = sqNext]
    /\ pc' = [pc EXCEPT ![t] = "sq_incr"]
    /\ UNCHANGED <<lq, sq, lqNext, sqNext, dataVars, eboxVars, initVars, mBoxCondition,
                   lqMutex, sqMutex, mBoxMutex,
                   lqGrants, sqGrants>>

GetSQSlot_Incr(t) ==
    /\ ~crashed
    /\ pc[t] = "sq_incr"
    /\ sqNext' = retVal[t] + 1
    /\ pc' = [pc EXCEPT ![t] = "sq_assign"]
    /\ UNCHANGED <<lq, sq, lqNext, dataVars, eboxVars, initVars, mBoxCondition,
                   retVal, lqMutex, sqMutex, mBoxMutex,
                   lqGrants, sqGrants>>

GetSQSlot_Assign(t) ==
    /\ ~crashed
    /\ pc[t] = "sq_assign"
    /\ sq' = [sq EXCEPT ![retVal[t]].state = "Assigned"]
    /\ pc' = [pc EXCEPT ![t] = "sq_unlock"]
    /\ UNCHANGED <<lq, lqNext, sqNext, dataVars, eboxVars, initVars, mBoxCondition,
                   retVal, lqMutex, sqMutex, mBoxMutex,
                   lqGrants, sqGrants>>

GetSQSlot_Unlock(t) ==
    /\ ~crashed
    /\ pc[t] = "sq_unlock"
    /\ sqMutex' = NoThread
    /\ pc' = [pc EXCEPT ![t] = "sq_ret"]
    /\ sqGrants' = IF retVal[t] \in Slots
                   THEN [sqGrants EXCEPT ![retVal[t]] = @ + 1]
                   ELSE sqGrants
    /\ UNCHANGED <<lq, sq, lqNext, sqNext, dataVars, eboxVars, initVars, mBoxCondition,
                   retVal, lqMutex, mBoxMutex, lqGrants>>

\* The caller was told the queue is full: it stalls its instruction.
Stall(t) ==
    /\ ~crashed
    /\ pc[t] \in {"lq_ret", "sq_ret"}
    /\ retVal[t] = AXP_MBOX_QUEUE_LEN
    /\ pc' = [pc EXCEPT ![t] = "idle"]
    /\ UNCHANGED <<lq, sq, lqNext, sqNext, dataVars, eboxVars, initVars, mBoxCondition,
                   retVal, lqMutex, sqMutex, mBoxMutex,
                   lqGrants, sqGrants>>

\* pthread_mutex_lock(&cpu->mBoxMutex), in ReadMem and in WriteMem; the caller
\* has the instruction it publishes.
Publish_Lock(t) ==
    /\ ~crashed
    /\ pc[t] \in {"lq_ret", "sq_ret"}
    /\ retVal[t] # AXP_MBOX_QUEUE_LEN
    /\ UIDs \ UsedUIDs # {}
    /\ MutexFree(mBoxMutex)
    /\ mBoxMutex' = t
    /\ pc' = [pc EXCEPT ![t] = IF pc[t] = "lq_ret" THEN "rm_store" ELSE "wm_store"]
    /\ UNCHANGED <<lq, sq, lqNext, sqNext, dataVars, eboxVars, initVars, mBoxCondition,
                   retVal, lqMutex, sqMutex,
                   lqGrants, sqGrants>>

\* The three stores of ReadMem into cpu->lq[slot]
ReadMem_Store(t) ==
    \E uid \in UIDs \ UsedUIDs, op \in LoadOps, va \in ConcAddrs :
        /\ ~crashed
        /\ pc[t] = "rm_store"
        /\ lq' = [lq EXCEPT ![retVal[t]] = ReadMemEntry(lq[retVal[t]], NewInstr(uid, op), va)]
        /\ pc' = [pc EXCEPT ![t] = "pub_unlock"]
        /\ UNCHANGED <<sq, lqNext, sqNext, dataVars, eboxVars, initVars, mBoxCondition,
                       retVal, lqMutex, sqMutex, mBoxMutex,
                       lqGrants, sqGrants>>

\* The four stores of WriteMem into cpu->sq[slot]
WriteMem_Store(t) ==
    \E uid \in UIDs \ UsedUIDs, op \in StoreOps, va \in ConcAddrs :
        /\ ~crashed
        /\ pc[t] = "wm_store"
        /\ sq' = [sq EXCEPT ![retVal[t]] =
                     WriteMemEntry(sq[retVal[t]], NewInstr(uid, op), va, StoreValue(uid))]
        /\ pc' = [pc EXCEPT ![t] = "pub_unlock"]
        /\ UNCHANGED <<lq, lqNext, sqNext, dataVars, eboxVars, initVars, mBoxCondition,
                       retVal, lqMutex, sqMutex, mBoxMutex,
                       lqGrants, sqGrants>>

\* pthread_cond_signal(...); pthread_mutex_unlock(&cpu->mBoxMutex);
Publish_Unlock(t) ==
    /\ ~crashed
    /\ pc[t] = "pub_unlock"
    /\ mBoxMutex' = NoThread
    /\ pc' = [pc EXCEPT ![t] = "idle"]
    /\ UNCHANGED <<lq, sq, lqNext, sqNext, dataVars, eboxVars, initVars, mBoxCondition,
                   retVal, lqMutex, sqMutex,
                   lqGrants, sqGrants>>

\* The Mbox worker, the one thread that is no issue thread.
Worker == NumThreads + 1

\* The worker comes back from its wait on mBoxCondition owning mBoxMutex.
Worker_Lock ==
    /\ ~crashed
    /\ MutexFree(mBoxMutex)
    /\ mBoxMutex' = Worker
    /\ UNCHANGED <<lq, sq, lqNext, sqNext, dataVars, eboxVars, initVars, mBoxCondition,
                   pc, retVal, lqMutex, sqMutex, lqGrants, sqGrants>>

\* The worker makes one pass; it owns mBoxMutex and its callees take no lock.
Worker_Pass ==
    /\ mBoxMutex = Worker
    /\ AXP_21264_Mbox_Process_Q

\* The worker waits on mBoxCondition again, which releases mBoxMutex.
Worker_Unlock ==
    /\ ~crashed
    /\ mBoxMutex = Worker
    /\ mBoxMutex' = NoThread
    /\ UNCHANGED <<lq, sq, lqNext, sqNext, dataVars, eboxVars, initVars, mBoxCondition,
                   pc, retVal, lqMutex, sqMutex, lqGrants, sqGrants>>

\* The steps of issue thread t.
ThreadStep(t) ==
    \/ GetLQSlot_Lock(t) \/ GetLQSlot_Test(t) \/ GetLQSlot_Read(t)
    \/ GetLQSlot_Incr(t) \/ GetLQSlot_Assign(t) \/ GetLQSlot_Unlock(t)
    \/ GetSQSlot_Lock(t) \/ GetSQSlot_Test(t) \/ GetSQSlot_Read(t)
    \/ GetSQSlot_Incr(t) \/ GetSQSlot_Assign(t) \/ GetSQSlot_Unlock(t)
    \/ Stall(t) \/ Publish_Lock(t) \/ ReadMem_Store(t) \/ WriteMem_Store(t)
    \/ Publish_Unlock(t)

NextConc ==
    \/ \E t \in Threads : GetLQSlot_Lock(t)
    \/ \E t \in Threads : GetLQSlot_Test(t)
    \/ \E t \in Threads : GetLQSlot_Read(t)
    \/ \E t \in Threads : GetLQSlot_Incr(t)
    \/ \E t \in Threads : GetLQSlot_Assign(t)
    \/ \E t \in Threads : GetLQSlot_Unlock(t)
    \/ \E t \in Threads : GetSQSlot_Lock(t)
    \/ \E t \in Threads : GetSQSlot_Test(t)
    \/ \E t \in Threads : GetSQSlot_Read(t)
    \/ \E t \in Threads : GetSQSlot_Incr(t)
    \/ \E t \in Threads : GetSQSlot_Assign(t)
    \/ \E t \in Threads : GetSQSlot_Unlock(t)
    \/ \E t \in Threads : Stall(t)
    \/ \E t \in Threads : Publish_Lock(t)
    \/ \E t \in Threads : ReadMem_Store(t)
    \/ \E t \in Threads : WriteMem_Store(t)
    \/ \E t \in Threads : Publish_Unlock(t)
    \/ Worker_Lock
    \/ Worker_Pass
    \/ Worker_Unlock

SpecConc == Init /\ [][NextConc]_vars

\* ================================================== the HW_LD loads
\* The Mbox given PALcode loads; the macro is zero or it is not.
HwLdLengths == {0, 1}

InitHwLd == InitMbox /\ AXP_HW_LD_LONGWORD \in HwLdLengths

\* An issue thread publishes the HW_LD load whose slot it reserved.
IssueLoadHw ==
    \E slot \in Slots, uid \in UIDs \ UsedUIDs, ls \in HwLdLengths, va \in VirtAddrs :
        /\ ~crashed
        /\ lq[slot].state = "Assigned"
        /\ AXP_21264_Mbox_ReadMem([NewInstr(uid, "HW_LD") EXCEPT !.len_stall = ls],
                                  slot, va)

NextHwLd ==
    \/ AXP_21264_Mbox_GetLQSlot
    \/ AXP_21264_Mbox_GetSQSlot
    \/ IssueLoadHw
    \/ IssueStore
    \/ AXP_21264_Mbox_Process_Q
    \/ RetireStore
    \/ MAFComplete

SpecHwLd == InitHwLd /\ [][NextHwLd]_vars

\* ============================================ publication past the end
\* The allocator and publication calls of callers that publish although the
\* allocator returned AXP_MBOX_QUEUE_LEN. cpu->lq[AXP_MBOX_QUEUE_LEN] is no element of the array:
\* the stores go to the memory behind it, which is undefined. They hit
\* nothing this model holds, or the member of the structure that follows
\* (taken to be the first entry of the other queue), or the process dies.
PastEndOutcomes == {"unseen", "neighbour", "crash"}

\* AXP_21264_Mbox_ReadMem(cpu, instr, AXP_MBOX_QUEUE_LEN, virtAddr)
ReadMemPastEnd ==
    \E uid \in UIDs \ UsedUIDs, op \in LoadOps, va \in ConcAddrs, out \in PastEndOutcomes :
        /\ ~crashed
        /\ call.fn = "GetLQSlot"
        /\ call.ret = AXP_MBOX_QUEUE_LEN
        /\ call' = [NoCall EXCEPT !.fn = "ReadMem", !.slot = AXP_MBOX_QUEUE_LEN,
                                  !.instr = NewInstr(uid, op), !.virtAddr = va]
        /\ crashed' = (out = "crash")
        /\ sq' = IF out = "neighbour"
                 THEN [sq EXCEPT ![0] = ReadMemEntry(sq[0], NewInstr(uid, op), va)]
                 ELSE sq
        /\ UNCHANGED <<lq, lqNext, sqNext, dcValid, bcValid, maf, iowb, events, tc,
                       threadVars, eboxVars, initVars>>

\* AXP_21264_Mbox_WriteMem(cpu, instr, AXP_MBOX_QUEUE_LEN, virtAddr, value)
WriteMemPastEnd ==
    \E uid \in UIDs \ UsedUIDs, op \in StoreOps, va \in ConcAddrs, out \in PastEndOutcomes :
        /\ ~crashed
        /\ call.fn = "GetSQSlot"
        /\ call.ret = AXP_MBOX_QUEUE_LEN
        /\ call' = [NoCall EXCEPT !.fn = "WriteMem", !.slot = AXP_MBOX_QUEUE_LEN,
                                  !.instr = NewInstr(uid, op), !.virtAddr = va,
                                  !.value = StoreValue(uid)]
        /\ crashed' = (out = "crash")
        /\ lq' = IF out = "neighbour"
                 THEN [lq EXCEPT ![0] = WriteMemEntry(lq[0], NewInstr(uid, op), va,
                                                      StoreValue(uid))]
                 ELSE lq
        /\ UNCHANGED <<sq, lqNext, sqNext, dcValid, bcValid, maf, iowb, events, tc,
                       threadVars, eboxVars, initVars>>

NextPastEnd ==
    \/ AXP_21264_Mbox_GetLQSlot
    \/ AXP_21264_Mbox_GetSQSlot
    \/ IssueLoad
    \/ IssueStore
    \/ ReadMemPastEnd
    \/ WriteMemPastEnd

SpecPastEnd == Init /\ [][NextPastEnd]_vars

\* ================================================ the condition variable
\* The publications with the signal a step of its own, and the worker held at
\* mBoxCondition: "waiting" in pthread_cond_wait, "woken" by a signal and not
\* yet owner of mBoxMutex again, "running" as the owner of mBoxMutex.

\* pthread_cond_signal: a thread waiting on the condition is woken, and a
\* signal nobody waits for is lost.
Signalled(cond) == IF cond = "waiting" THEN "woken" ELSE cond

\* A publication that goes on to the unlock without the signal.
Publish_Signal_Lost(t) ==
    /\ ~crashed
    /\ pc[t] = "pub_unlock"
    /\ pc' = [pc EXCEPT ![t] = "pub_release"]
    /\ UNCHANGED <<lq, sq, lqNext, sqNext, dataVars, eboxVars, initVars,
                   retVal, lqMutex, sqMutex, lqGrants, sqGrants, mBoxMutex, mBoxCondition>>

\* pthread_cond_signal(&cpu->mBoxCondition, &cpu->mBoxMutex), in ReadMem and in
\* WriteMem after the stores.
Publish_Signal(t) ==
    /\ ~crashed
    /\ pc[t] = "pub_unlock"
    /\ mBoxCondition' = Signalled(mBoxCondition)
    /\ pc' = [pc EXCEPT ![t] = "pub_release"]
    /\ UNCHANGED <<lq, sq, lqNext, sqNext, dataVars, eboxVars, initVars,
                   retVal, lqMutex, sqMutex, lqGrants, sqGrants, mBoxMutex>>

\* pthread_mutex_unlock(&cpu->mBoxMutex), the last statement of ReadMem and of
\* WriteMem.
Publish_Release(t) ==
    /\ ~crashed
    /\ pc[t] = "pub_release"
    /\ mBoxMutex' = NoThread
    /\ pc' = [pc EXCEPT ![t] = "idle"]
    /\ UNCHANGED <<lq, sq, lqNext, sqNext, dataVars, eboxVars, initVars,
                   retVal, lqMutex, sqMutex, lqGrants, sqGrants, mBoxCondition>>

\* An entry is published and not yet taken up by a pass.
Actionable == \E i \in Slots : lq[i].state = "Initial" \/ sq[i].state = "Initial"

\* The worker returns from pthread_cond_wait, after a signal or without one,
\* which makes it the owner of mBoxMutex again.
Worker_Wake ==
    /\ ~crashed
    /\ mBoxCondition \in {"waiting", "woken"}
    /\ MutexFree(mBoxMutex)
    /\ mBoxMutex' = Worker
    /\ mBoxCondition' = "running"
    /\ UNCHANGED <<lq, sq, lqNext, sqNext, dataVars, eboxVars, initVars,
                   pc, retVal, lqMutex, sqMutex, lqGrants, sqGrants>>

\* With no entry to take up the worker calls pthread_cond_wait, which releases
\* mBoxMutex.
Worker_Wait ==
    /\ ~crashed
    /\ mBoxCondition = "running"
    /\ mBoxMutex = Worker
    /\ ~Actionable
    /\ mBoxMutex' = NoThread
    /\ mBoxCondition' = "waiting"
    /\ UNCHANGED <<lq, sq, lqNext, sqNext, dataVars, eboxVars, initVars,
                   pc, retVal, lqMutex, sqMutex, lqGrants, sqGrants>>

NextSignal ==
    \/ \E t \in Threads : GetLQSlot_Lock(t)
    \/ \E t \in Threads : GetLQSlot_Test(t)
    \/ \E t \in Threads : GetLQSlot_Read(t)
    \/ \E t \in Threads : GetLQSlot_Incr(t)
    \/ \E t \in Threads : GetLQSlot_Assign(t)
    \/ \E t \in Threads : GetLQSlot_Unlock(t)
    \/ \E t \in Threads : GetSQSlot_Lock(t)
    \/ \E t \in Threads : GetSQSlot_Test(t)
    \/ \E t \in Threads : GetSQSlot_Read(t)
    \/ \E t \in Threads : GetSQSlot_Incr(t)
    \/ \E t \in Threads : GetSQSlot_Assign(t)
    \/ \E t \in Threads : GetSQSlot_Unlock(t)
    \/ \E t \in Threads : Stall(t)
    \/ \E t \in Threads : Publish_Lock(t)
    \/ \E t \in Threads : ReadMem_Store(t)
    \/ \E t \in Threads : WriteMem_Store(t)
    \/ \E t \in Threads : Publish_Signal(t)
    \/ \E t \in Threads : Publish_Release(t)
    \/ Worker_Wake
    \/ Worker_Pass
    \/ Worker_Wait

SpecSignal == Init /\ [][NextSignal]_vars

\* ==================================================== the Ebox helpers
\* The load/store helpers of the Ebox (AXP_21264_Ebox_LoadStore.c), in
\* little-endian mode, each call one step.
mboxVars == <<lq, sq, lqNext, sqNext, dataVars, threadVars, initVars>>

EboxOps == {"LDBU", "LDQ_L", "STL_C", "STQ_C", "STQ"}
SrcValues == {5, 258}
Displacements == {0, 8}

\* va = instr->src1v + instr->displacement
EffectiveVA(instr) == instr.src1v + instr.displacement

AXP_ZEXT_BYTE(v) == v % 256

\* AXP_SEXT_LONG, for the values below 2^31 the model uses.
AXP_SEXT_LONG(v) == v

LDBU_Exec(instr) ==
    [instr EXCEPT !.destv = AXP_ZEXT_BYTE(EffectiveVA(instr)),
                  !.state = "WaitingRetirement"]

LDQ_L_Exec(instr) ==
    [instr EXCEPT !.lockFlagPending = TRUE,
                  !.destv = AXP_SEXT_LONG(EffectiveVA(instr)),
                  !.state = "WaitingRetirement"]

STL_C_Exec(instr, flag) ==
    [instr EXCEPT !.destv = IF flag THEN 1 ELSE 0,
                  !.clearLockPending = TRUE,
                  !.state = "WaitingRetirement"]

\* A store-conditional that clears the lock only when it succeeds.
STQ_C_Exec_ClearOnSuccess(instr, flag) ==
    [instr EXCEPT !.destv = IF flag THEN 1 ELSE 0,
                  !.clearLockPending = flag,
                  !.state = "WaitingRetirement"]

STQ_C_Exec(instr, flag) ==
    [instr EXCEPT !.destv = IF flag THEN 1 ELSE 0,
                  !.clearLockPending = TRUE,
                  !.state = "WaitingRetirement"]

STQ_Exec(instr) == [instr EXCEPT !.state = "WaitingRetirement"]

\* The helper is called for an instruction of its opcode that is executing.
Executing(op) == einstr.opcode = op /\ einstr.state = "Executing"

AXP_LDBU ==
    /\ Executing("LDBU")
    /\ einstr' = LDBU_Exec(einstr)
    /\ UNCHANGED <<lockFlag, lineLocked, mem, mboxVars>>

AXP_LDQ_L ==
    /\ Executing("LDQ_L")
    /\ einstr' = LDQ_L_Exec(einstr)
    /\ UNCHANGED <<lockFlag, lineLocked, mem, mboxVars>>

AXP_STL_C ==
    /\ Executing("STL_C")
    /\ einstr' = STL_C_Exec(einstr, lockFlag)
    /\ UNCHANGED <<lockFlag, lineLocked, mem, mboxVars>>

AXP_STQ_C ==
    /\ Executing("STQ_C")
    /\ einstr' = STQ_C_Exec(einstr, lockFlag)
    /\ UNCHANGED <<lockFlag, lineLocked, mem, mboxVars>>

AXP_STQ ==
    /\ Executing("STQ")
    /\ einstr' = STQ_Exec(einstr)
    /\ UNCHANGED <<lockFlag, lineLocked, mem, mboxVars>>

\* The Ibox gives the next instruction to the Ebox.
Ibox_Issue ==
    \E op \in EboxOps, v \in SrcValues, d \in Displacements :
        /\ einstr.state \in {"none", "Retired"}
        /\ einstr.uniqueID < MaxInstr
        /\ einstr' = [NoEInstr EXCEPT !.uniqueID = einstr.uniqueID + 1,
                                      !.opcode = op,
                                      !.src1v = v,
                                      !.displacement = d,
                                      !.state = "Executing"]
        /\ UNCHANGED <<lockFlag, lineLocked, mem, mboxVars>>

\* The Ibox retires the instruction: a pending lock is taken (the line is
\* locked), a pending clear drops the lock flag.
Ibox_Retire ==
    /\ einstr.state = "WaitingRetirement"
    /\ einstr' = [einstr EXCEPT !.state = "Retired"]
    /\ lockFlag' = IF einstr.clearLockPending THEN FALSE
                   ELSE IF einstr.lockFlagPending THEN TRUE
                   ELSE lockFlag
    /\ lineLocked' = IF einstr.clearLockPending THEN FALSE
                     ELSE IF einstr.lockFlagPending THEN TRUE
                     ELSE lineLocked
    /\ UNCHANGED <<mem, mboxVars>>

\* Another processor writes the locked line: the coherence protocol turns
\* the locked bit of the line off.
OtherWrite ==
    /\ lineLocked
    /\ lineLocked' = FALSE
    /\ mem' = 1 - mem
    /\ UNCHANGED <<einstr, lockFlag, mboxVars>>

NextEbox ==
    \/ Ibox_Issue
    \/ AXP_LDBU
    \/ AXP_LDQ_L
    \/ AXP_STL_C
    \/ AXP_STQ_C
    \/ AXP_STQ
    \/ Ibox_Retire
    \/ OtherWrite

SpecEbox == Init /\ [][NextEbox]_vars

\* ================================================================ claims
\* TryCaches handled LQ slot i in this step and sourced the load from a store.
ForwardedNow(i) == lq[i].state = "Initial" /\ tc'[i].olderStore

\* TryCaches handled LQ slot i in this step.
TriedNow(i) ==
    /\ lq[i].state = "Initial"
    /\ lq'[i].physAddress # 0
    /\ ~lq'[i].IOflag

\* The forwarding predicate of the design: the store is in process, at the
\* address of the load, covers it and is older than it.
Qualifies(L, S) ==
    /\ S.state \in {"Initial", "SQWritePending", "SQComplete"}
    /\ S.virtAddress = L.virtAddress
    /\ S.len >= L.len
    /\ S.instr.uniqueID < L.instr.uniqueID

\* C1: whenever TryCaches completes a load L by forwarding from a store S,
\* S is older than L (S.uniqueID < L.uniqueID), at the same virtual address,
\* at least as wide, and in state Initial, SQWritePending or SQComplete.
C1_ForwardSourceQualifies ==
    [][\A i \in Slots :
          ForwardedNow(i) => Qualifies(lq'[i], sq[tc'[i].nextOlderStore])]_vars

\* C2: the store TryCaches chooses for a load is the one with the greatest
\* uniqueID among all SQ entries that satisfy the forwarding predicate, in
\* whatever slots they sit: it forwards when there is one, and from that one.
C2_YoungestOlderStoreChosen ==
    [][\A i \in Slots :
          TriedNow(i) =>
              LET Q == {j \in Slots : Qualifies(lq'[i], sq[j])}
              IN  /\ tc'[i].olderStore <=> Q # {}
                  /\ Q # {} =>
                        /\ tc'[i].nextOlderStore \in Q
                        /\ \A j \in Q : sq[j].instr.uniqueID
                                          <= sq[tc'[i].nextOlderStore].instr.uniqueID]_vars

\* C3: when TryCaches forwards from store S to load L, for every width the
\* load's destv then holds exactly the low len bytes of S.value, the upper
\* bytes zero, and the load is complete (stated for the runs in which the
\* process survives the copy).
C3_ForwardedValueIsLowBytes ==
    [][\A i \in Slots :
          (ForwardedNow(i) /\ ~crashed') =>
              /\ lq'[i].instr.destv
                     = LowBytes(sq[tc'[i].nextOlderStore].value, lq'[i].len)
              /\ lq'[i].instr.state = "WaitingRetirement"]_vars

\* C4: a load that completes while an older store to its address has retired
\* and waits in SQReady takes its value from that store or from a younger
\* store still older than the load, never from the cache the store has not
\* reached yet.
C4_RetiredStoreObserved ==
    [][\A i \in Slots :
          (lq[i].state = "Initial" /\ lq'[i].instr.state = "WaitingRetirement") =>
              \A j \in Slots :
                  (/\ sq[j].state = "SQReady"
                   /\ sq[j].virtAddress = lq'[i].virtAddress
                   /\ sq[j].instr.uniqueID < lq'[i].instr.uniqueID) =>
                      /\ tc'[i].olderStore
                      /\ sq[tc'[i].nextOlderStore].virtAddress = lq'[i].virtAddress
                      /\ sq[tc'[i].nextOlderStore].instr.uniqueID >= sq[j].instr.uniqueID
                      /\ sq[tc'[i].nextOlderStore].instr.uniqueID
                             < lq'[i].instr.uniqueID]_vars

\* A scheduler pass was just made and ran to its end.
PassNow == call'.fn = "Process_Q" /\ ~crashed'

\* The requests in the queue q (the MAF or the IOWB) that name LQ slot i.
RequestsOf(q, i) == {k \in 1 .. Len(q) : q[k].slot = i}

\* C11: when the translation of a load in state Initial faults, the pass
\* raises an Ibox event for the load and discards the entry: at the end of
\* the pass it is in state QNotInUse, no cache was probed for it and neither
\* the MAF nor the IOWB holds a request of its slot.
C11_TranslationFaultDiscards ==
    [][\A i \in Slots :
          (PassNow /\ lq[i].state = "Initial" /\ AXP_va2pa(lq[i].virtAddress) = 0) =>
              /\ lq'[i].state = "QNotInUse"
              /\ \/ \E k \in 1 .. Len(events') :
                        events'[k].uniqueID = lq[i].instr.uniqueID
                 \/ Len(events) = MaxEvents
              /\ tc'[i] = NoTry
              /\ RequestsOf(maf', i) = {}
              /\ RequestsOf(iowb', i) = {}]_vars

\* TryCaches ran on the memory load of LQ slot i in this pass and found no
\* store to source it from.
ProbedNow(i) ==
    /\ PassNow
    /\ lq[i].state = "Initial"
    /\ AXP_va2pa(lq[i].virtAddress) # 0
    /\ ~AXP_21264_IS_IO_ADDR(AXP_va2pa(lq[i].virtAddress))
    /\ ~tc'[i].olderStore

\* C12: for a memory load for which forwarding declines, when the Dcache
\* hits, or the Dcache misses and the Bcache hits (the line is then copied
\* into the Dcache first), the width of the load is read from the Dcache into
\* destv and the entry is in LQComplete when TryCaches returns.
C12_CacheHitCompletesLoad ==
    [][\A i \in Slots :
          (ProbedNow(i) /\ (dcValid \/ bcValid)) =>
              /\ tc'[i].state = "LQComplete"
              /\ lq'[i].instr.destv = LowBytes(MemData, lq'[i].len)
              /\ {"Dcache_Status", "DcacheRead"} \subseteq tc'[i].calls
              /\ "Add_MAF" \notin tc'[i].calls
              /\ dcValid => "Bcache_Status" \notin tc'[i].calls
              /\ "Bcache_Status" \in tc'[i].calls =>
                    "CopyBcacheToDcache" \in tc'[i].calls /\ dcValid']_vars

\* One pass completed a byte load after a Bcache hit and a quadword load
\* after the Dcache hit that the copy made possible.
C12_Witness ==
    /\ call.fn = "Process_Q"
    /\ \E i, j \in Slots :
          /\ lq[i].instr.opcode = "LDBU" /\ lq[j].instr.opcode = "LDQ"
          /\ tc[i].state = "LQComplete" /\ tc[j].state = "LQComplete"
          /\ tc[i].calls = {"Dcache_Status", "Bcache_Status", "CopyBcacheToDcache",
                            "DcacheRead"}
          /\ tc[j].calls = {"Dcache_Status", "DcacheRead"}
          /\ lq[i].instr.destv = LowBytes(MemData, 1)
          /\ lq[j].instr.destv = MemData

\* C13: when a memory load misses the Dcache and the Bcache, one MAF request
\* of kind LDx is added with the load's physAddress, its LQ slot and its
\* len, the entry stays in LQReadPending and destv is not written; and as
\* long as a request is in the MAF its slot holds that same load, pending.
C13_MissEnqueuesMAF ==
    /\ [][\A i \in Slots :
            (ProbedNow(i) /\ ~dcValid /\ ~bcValid) =>
                /\ tc'[i].state = "LQReadPending"
                /\ lq'[i].state = "LQReadPending"
                /\ lq'[i].instr.destv = lq[i].instr.destv
                /\ "Add_MAF" \in tc'[i].calls
                /\ "DcacheRead" \notin tc'[i].calls
                /\ Cardinality(RequestsOf(maf', i)) = 1
                /\ \A k \in RequestsOf(maf', i) :
                      maf'[k] = [type |-> "LDx", pa |-> lq'[i].physAddress,
                                 slot |-> i, len |-> lq'[i].len]]_vars
    /\ [][\A i \in Slots :
            (RequestsOf(maf, i) # {} /\ RequestsOf(maf', i) # {}) =>
                lq'[i].instr.uniqueID = lq[i].instr.uniqueID]_vars
    /\ [](\A k \in 1 .. Len(maf) :
            /\ maf[k].slot \in Slots
            /\ lq[maf[k].slot].state = "LQReadPending"
            /\ lq[maf[k].slot].physAddress = maf[k].pa
            /\ lq[maf[k].slot].len = maf[k].len)

\* Two loads of different widths missed both caches in turn: the MAF holds
\* their requests in the order of their slots.
C13_Witness ==
    /\ ~dcValid /\ ~bcValid
    /\ Len(maf) = 2
    /\ maf[1].slot = 0 /\ maf[2].slot = 1
    /\ maf[1].len # maf[2].len
    /\ \A i \in Slots : lq[i].state = "LQReadPending" /\ lq[i].instr.destv = Zero64

\* C14: a load left in LQReadPending by a miss of both caches is probed again
\* by the first pass made after the Cbox signalled that its MAF request is
\* complete: at the end of that pass it has left LQReadPending and destv
\* holds the load's width of the line.
C14_MissFillRoundTrip ==
    [][\A i \in Slots :
          (/\ PassNow
           /\ lq[i].state = "LQReadPending"
           /\ ~lq[i].IOflag
           /\ "Add_MAF" \in tc[i].calls
           /\ RequestsOf(maf, i) = {}
           /\ dcValid) =>
              /\ lq'[i].state \in {"LQComplete", "QNotInUse"}
              /\ lq'[i].instr.destv = LowBytes(MemData, lq'[i].len)]_vars

\* C15: a load whose physical address is in the I/O region never probes or
\* reads a cache and never consults store forwarding: the pass that takes
\* it up adds exactly one IOWB request for its slot and leaves the entry in
\* LQReadPending, destv unwritten, and so it stays in every later pass.
C15_IOLoadBypassesCaches ==
    /\ [][\A i \in Slots :
            (/\ PassNow
             /\ lq[i].state = "Initial"
             /\ AXP_21264_IS_IO_ADDR(AXP_va2pa(lq[i].virtAddress))) =>
                /\ lq'[i].IOflag
                /\ lq'[i].state = "LQReadPending"
                /\ lq'[i].instr.destv = lq[i].instr.destv
                /\ \A k \in RequestsOf(iowb', i) :
                      iowb'[k] = [pa |-> lq'[i].physAddress, slot |-> i,
                                  len |-> lq'[i].len]]_vars
    /\ [](\A i \in Slots :
            lq[i].IOflag =>
                /\ lq[i].state = "LQReadPending"
                /\ tc[i] = NoTry
                /\ RequestsOf(maf, i) = {}
                /\ Cardinality(RequestsOf(iowb, i)) = 1)

\* An I/O load is pending with its request in the IOWB while a store to the
\* same address is in flight and the Bcache holds lines.
C15_Witness ==
    /\ bcValid
    /\ \E i, j \in Slots :
          /\ lq[i].IOflag
          /\ lq[i].state = "LQReadPending"
          /\ RequestsOf(iowb, i) # {}
          /\ sq[j].state = "SQWritePending"
          /\ sq[j].virtAddress = lq[i].virtAddress
          /\ sq[j].instr.uniqueID > lq[i].instr.uniqueID

\* C5: GetLQSlot (GetSQSlot) returns the sentinel AXP_MBOX_QUEUE_LEN exactly
\* when lqNext (sqNext) equals AXP_MBOX_QUEUE_LEN at the call; otherwise it
\* returns the previous next-index, which is below AXP_MBOX_QUEUE_LEN,
\* increments the next-index and sets that slot's state to Assigned.
C5_AllocatorContract ==
    [][/\ call'.fn = "GetLQSlot" =>
            /\ (call'.ret = AXP_MBOX_QUEUE_LEN) <=> (lqNext = AXP_MBOX_QUEUE_LEN)
            /\ lqNext # AXP_MBOX_QUEUE_LEN =>
                  /\ call'.ret = lqNext
                  /\ call'.ret \in Slots
                  /\ lqNext' = lqNext + 1
                  /\ lq'[call'.ret].state = "Assigned"
       /\ call'.fn = "GetSQSlot" =>
            /\ (call'.ret = AXP_MBOX_QUEUE_LEN) <=> (sqNext = AXP_MBOX_QUEUE_LEN)
            /\ sqNext # AXP_MBOX_QUEUE_LEN =>
                  /\ call'.ret = sqNext
                  /\ call'.ret \in Slots
                  /\ sqNext' = sqNext + 1
                  /\ sq'[call'.ret].state = "Assigned"]_vars

\* The last slot of the LQ was just handed out and is Assigned.
C5_Witness ==
    /\ call.fn = "GetLQSlot"
    /\ call.ret = AXP_MBOX_QUEUE_LEN - 1
    /\ lqNext = AXP_MBOX_QUEUE_LEN
    /\ lq[call.ret].state = "Assigned"

\* C6: under every interleaving of the steps of concurrent GetLQSlot calls
\* (GetSQSlot calls) of several issue threads, no slot index is returned by
\* two successful calls, and two threads inside successful calls never hold
\* the same index.
C6_SlotAllocationExclusive ==
    /\ \A i \in Slots : lqGrants[i] <= 1 /\ sqGrants[i] <= 1
    /\ \A t, u \in Threads :
          (t # u /\ retVal[t] \in Slots /\ retVal[t] = retVal[u]) =>
              ~(\/ {pc[t], pc[u]} \subseteq {"lq_incr", "lq_assign", "lq_unlock", "lq_ret"}
                \/ {pc[t], pc[u]} \subseteq {"sq_incr", "sq_assign", "sq_unlock", "sq_ret"})

\* Two threads have each come back from GetLQSlot with a slot, one thread
\* having waited for the other to leave the allocator.
C6_Witness ==
    /\ pc[1] = "lq_ret" /\ pc[2] = "lq_ret"
    /\ retVal[1] = 1 /\ retVal[2] = 0
    /\ lqGrants[0] = 1 /\ lqGrants[1] = 1

LQFreed(i) == lq[i].state = "QNotInUse" /\ lq[i].instr.state = "WaitingRetirement"
SQFreed(i) == sq[i].state = "QNotInUse" /\ sq[i].instr.state = "WaitingRetirement"

\* C8: once an entry has completed and its slot is freed, the slot is
\* reclaimed: a GetLQSlot (GetSQSlot) call made then does not return the
\* queue-full sentinel.
C8_FreedSlotReclaimed ==
    [][/\ (call'.fn = "GetLQSlot" /\ \E i \in Slots : LQFreed(i))
            => call'.ret # AXP_MBOX_QUEUE_LEN
       /\ (call'.fn = "GetSQSlot" /\ \E i \in Slots : SQFreed(i))
            => call'.ret # AXP_MBOX_QUEUE_LEN]_vars

\* C9: on a full queue GetLQSlot (GetSQSlot) returns the sentinel and leaves
\* the next-indexes and every entry of both queues as they were.
C9_FullQueueLeavesStateAlone ==
    [][/\ (call'.fn = "GetLQSlot" /\ lqNext = AXP_MBOX_QUEUE_LEN) =>
            /\ call'.ret = AXP_MBOX_QUEUE_LEN
            /\ UNCHANGED <<lqNext, sqNext, lq, sq>>
       /\ (call'.fn = "GetSQSlot" /\ sqNext = AXP_MBOX_QUEUE_LEN) =>
            /\ call'.ret = AXP_MBOX_QUEUE_LEN
            /\ UNCHANGED <<lqNext, sqNext, lq, sq>>]_vars

\* GetSQSlot just returned the sentinel while stores are in flight.
C9_Witness ==
    /\ call.fn = "GetSQSlot"
    /\ call.ret = AXP_MBOX_QUEUE_LEN
    /\ \E i \in Slots : sq[i].state = "SQWritePending"

\* C10: ReadMem (WriteMem) on an allocated slot moves that entry from
\* Assigned to Initial with virtAddress and instr (and value) set to the
\* arguments and changes no other entry of either queue; and an entry
\* becomes Initial only by this publication of an Assigned slot.
C10_PublicationContract ==
    [][/\ call'.fn = "ReadMem" =>
            /\ lq[call'.slot].state = "Assigned"
            /\ lq' = [lq EXCEPT ![call'.slot] =
                         [lq[call'.slot] EXCEPT !.state = "Initial",
                                                !.virtAddress = call'.virtAddr,
                                                !.instr = call'.instr]]
            /\ sq' = sq
       /\ call'.fn = "WriteMem" =>
            /\ sq[call'.slot].state = "Assigned"
            /\ sq' = [sq EXCEPT ![call'.slot] =
                         [sq[call'.slot] EXCEPT !.state = "Initial",
                                                !.virtAddress = call'.virtAddr,
                                                !.instr = call'.instr,
                                                !.value = call'.value]]
            /\ lq' = lq
       /\ \A i \in Slots :
            /\ (lq'[i].state = "Initial" /\ lq[i].state # "Initial") =>
                  (call'.fn = "ReadMem" /\ call'.slot = i /\ lq[i].state = "Assigned")
            /\ (sq'[i].state = "Initial" /\ sq[i].state # "Initial") =>
                  (call'.fn = "WriteMem" /\ call'.slot = i /\ sq[i].state = "Assigned")]_vars

\* A store was just published into the second slot while the first is in flight.
C10_Witness ==
    /\ call.fn = "WriteMem"
    /\ call.slot = 1
    /\ sq[1].state = "Initial"
    /\ sq[1].value = call.value
    /\ sq[1].instr = call.instr
    /\ sq[0].state = "SQWritePending"

\* A store-conditional helper runs in this step.
StoreCondNow ==
    /\ einstr.opcode \in {"STL_C", "STQ_C"}
    /\ einstr.state = "Executing"
    /\ einstr'.state # "Executing"

\* C16: a store-conditional writes 1 to destv and commits its store to
\* memory if and only if the lock flag is set and no write to the locked
\* line intervened; otherwise it writes 0 and leaves memory as it was.
C16_StoreConditionalOutcome ==
    [][StoreCondNow =>
          /\ einstr'.destv \in {0, 1}
          /\ (einstr'.destv = 1) <=> (lockFlag /\ lineLocked)
          /\ einstr'.destv = 1 =>
                \/ mem' = einstr.src1v
                \/ \E j \in Slots : sq'[j].instr.uniqueID = einstr.uniqueID
          /\ einstr'.destv = 0 => (mem' = mem /\ sq' = sq)]_vars

\* C17: every execution of STL_C or STQ_C sets clearLockPending, whether
\* it wrote 1 or 0 to destv.
C17_StoreConditionalClearsLock ==
    [][StoreCondNow => (einstr'.clearLockPending /\ einstr'.destv \in {0, 1})]_vars

\* A second store-conditional found the lock flag cleared by the first: it
\* failed and asks again for the lock to be cleared.
C17_Witness ==
    /\ einstr.opcode = "STQ_C"
    /\ einstr.uniqueID = 3
    /\ einstr.state = "WaitingRetirement"
    /\ einstr.destv = 0
    /\ einstr.clearLockPending
    /\ ~lockFlag

\* C18: a memory load or store is marked WaitingRetirement only once its
\* access was published in the LQ or SQ and the Mbox completed that entry;
\* the Ebox helper itself never marks it.
C18_RetirementOnlyAfterMbox ==
    [][(einstr.state = "Executing" /\ einstr'.state = "WaitingRetirement") =>
          \E j \in Slots :
              \/ /\ lq[j].instr.uniqueID = einstr.uniqueID
                 /\ lq[j].state \in {"LQComplete", "QNotInUse"}
              \/ /\ sq[j].instr.uniqueID = einstr.uniqueID
                 /\ sq[j].state \in {"SQComplete", "QNotInUse"}]_vars

\* ------------------------------------------------------------------- C19
\* C19: after AXP_21264_Mbox_Init returns, whatever the structure held before,
\* every LQ and SQ slot is QNotInUse, lqNext = sqNext = 0, every DTB entry is
\* invalid, every MAF slot is MAFNotInUse (the MAF holds no request),
\* dcCtl.set_en = 3, dtbAltMode.alt_mode = KERNEL, and the function returns
\* false, its value for success.
C19_InitResetsQueuesAndIPRs ==
    call.fn = "Mbox_Init" =>
        /\ \A i \in Slots : lq[i].state = "QNotInUse" /\ sq[i].state = "QNotInUse"
        /\ lqNext = 0
        /\ sqNext = 0
        /\ \A ii \in TBEntries : ~dtb[ii]
        /\ maf = <<>>
        /\ dcCtl = 3
        /\ dtbAltMode = "KERNEL"
        /\ call.ret = 0

\* Mbox_Init returned on a structure whose queue entries were in use (the
\* physAddress it does not write still shows what the entries held).
C19_Witness ==
    /\ call.fn = "Mbox_Init"
    /\ \A i \in Slots : lq[i].physAddress = PA_MEM /\ sq[i].physAddress = PA_IO
    /\ \A i \in Slots : lq[i].state = "QNotInUse" /\ sq[i].state = "QNotInUse"

\* ------------------------------------------------------------------- C20
\* C20: after AXP_21264_Mbox_Init returns, every Dcache line of every index
\* from 0 and of both ways is zeroed, not valid and Invalid, and every
\* duplicate tag of every index is cleared and not valid, whatever they held.
C20_InitClearsWholeDcache ==
    call.fn = "Mbox_Init" =>
        \A ii \in CacheIndexes : \A jj \in CacheWays :
            /\ dCache[ii][jj] = CleanLine
            /\ dtag[ii][jj] = CleanTag

\* ------------------------------------------------------------------- C21
\* The step writes the state field of an LQ or SQ entry.
StateWritten ==
    \E i \in Slots : lq'[i].state # lq[i].state \/ sq'[i].state # sq[i].state

\* The thread making the step owns mBoxMutex: the issue thread whose position
\* changes, or the worker when no issue thread moves.
StepperHoldsMBoxMutex ==
    IF pc' = pc
    THEN mBoxMutex = Worker
    ELSE \A t \in Threads : pc'[t] # pc[t] => mBoxMutex = t

\* C21: every write of the state field of an LQ or SQ entry, by the allocators,
\* by ReadMem/WriteMem or by the scheduler, is made by a thread that holds
\* mBoxMutex; in particular no thread without mBoxMutex writes an entry's state
\* while the scheduler owns the mutex and reads the queue states.
C21_StateWritesUnderMBoxMutex ==
    [][StateWritten => StepperHoldsMBoxMutex]_vars

\* ------------------------------------------------------------------- C22
\* Everybody who takes locks.
Participants == Threads \cup {Worker}

\* The mutexes t owns.
HeldBy(t) ==
    {m \in {"lqMutex", "sqMutex", "mBoxMutex"} :
        \/ m = "lqMutex" /\ lqMutex = t
        \/ m = "sqMutex" /\ sqMutex = t
        \/ m = "mBoxMutex" /\ mBoxMutex = t}

\* The owners of the mutexes t is about to lock: an issue thread between two
\* calls locks lqMutex or sqMutex next, one that was given a slot locks
\* mBoxMutex next, the worker out of its pass locks mBoxMutex next.
WaitsFor(t) ==
    IF t = Worker
    THEN IF mBoxMutex = Worker THEN {} ELSE {mBoxMutex} \ {NoThread}
    ELSE IF pc[t] = "idle" THEN {lqMutex, sqMutex} \ {NoThread}
    ELSE IF pc[t] \in {"lq_ret", "sq_ret"} /\ retVal[t] # AXP_MBOX_QUEUE_LEN
         THEN {mBoxMutex} \ {NoThread}
         ELSE {}

\* A set of threads each of which waits for a mutex another of them (or
\* itself) owns.
Deadlock == \E D \in SUBSET Participants : D # {} /\ \A t \in D : WaitsFor(t) \cap D # {}

\* C22: no thread takes a mutex while it owns another one, so lqMutex and
\* sqMutex are never taken by an owner of mBoxMutex (the order is allocator
\* mutex, then mBoxMutex); the pass is made by the worker that already owns
\* mBoxMutex, without taking it again; every owner of a mutex can make its
\* next step; and so no deadlock is reachable with the issue threads
\* allocating and publishing while the worker runs.
C22_NoDeadlock ==
    ~crashed =>
        /\ ~Deadlock
        /\ \A t \in Participants : Cardinality(HeldBy(t)) <= 1
        /\ \A t \in Threads : HeldBy(t) # {} => ENABLED ThreadStep(t)
        /\ mBoxMutex = Worker => ENABLED Worker_Unlock

\* One issue thread waits for mBoxMutex, which the worker owns, while the
\* other one is inside an allocator.
C22_Witness ==
    \E t1, t2 \in Threads :
        /\ t1 # t2
        /\ pc[t1] \in {"lq_ret", "sq_ret"}
        /\ retVal[t1] # AXP_MBOX_QUEUE_LEN
        /\ mBoxMutex = Worker
        /\ HeldBy(t2) # {}

\* ------------------------------------------------------------------- C23
\* TryCaches ran on the memory load of LQ slot i in this pass and sourced it
\* from a store.
ForwardedInPass(i) ==
    /\ PassNow
    /\ lq[i].state = "Initial"
    /\ AXP_va2pa(lq[i].virtAddress) # 0
    /\ ~AXP_21264_IS_IO_ADDR(AXP_va2pa(lq[i].virtAddress))
    /\ tc'[i].olderStore

\* C23: when a load is completed by store forwarding, TryCaches asks neither
\* the Dcache nor the Bcache for a status, reads nothing from the Dcache,
\* copies nothing from the Bcache and adds no MAF request for the load.
C23_ForwardingTouchesNoCache ==
    [][\A i \in Slots :
          ForwardedInPass(i) =>
              /\ tc'[i].state = "LQComplete"
              /\ tc'[i].calls = {}
              /\ RequestsOf(maf', i) = {}]_vars

\* A byte load was sourced from a store while the Bcache held the line: the
\* low byte of the store's value is in destv and no cache function was called.
C23_Witness ==
    /\ call.fn = "Process_Q"
    /\ bcValid
    /\ \E i, j \in Slots :
          /\ tc[i].olderStore /\ tc[i].nextOlderStore = j
          /\ tc[i].state = "LQComplete"
          /\ tc[i].calls = {}
          /\ lq[i].instr.opcode = "LDBU"
          /\ lq[i].instr.destv = LowBytes(sq[j].value, 1)
          /\ lq[i].instr.destv # Zero64

\* ------------------------------------------------------------------- C24
\* The pass takes up the memory load of LQ slot i, published and not yet
\* translated.
LoadTakenUp(i) ==
    /\ PassNow
    /\ lq[i].state = "Initial"
    /\ AXP_va2pa(lq[i].virtAddress) # 0
    /\ ~AXP_21264_IS_IO_ADDR(AXP_va2pa(lq[i].virtAddress))

\* The in-flight store S starts at the first byte of the load L and is
\* narrower than it: their byte ranges intersect, S does not cover L.
NarrowerAtSameAddress(L, S) ==
    /\ SQInProcess(S)
    /\ S.virtAddress = L.virtAddress
    /\ S.len < LoadLen(L)

\* C24: when an older in-flight store overlaps the load only partially,
\* TryCaches neither forwards nor reads the Dcache: the load stays in
\* LQReadPending and destv is not written.
C24_PartialOverlapStalls ==
    [][\A i \in Slots :
          (/\ LoadTakenUp(i)
           /\ \E j \in Slots :
                 /\ NarrowerAtSameAddress(lq[i], sq[j])
                 /\ sq[j].instr.uniqueID < lq[i].instr.uniqueID) =>
              /\ lq'[i].state = "LQReadPending"
              /\ lq'[i].instr.destv = lq[i].instr.destv
              /\ ~tc'[i].olderStore
              /\ "DcacheRead" \notin tc'[i].calls]_vars

\* ------------------------------------------------------------------- C25
\* C25: when the in-flight stores at the load's address are all narrower than
\* the load, and there is one, forwarding declines and the same call probes
\* the caches: the Dcache status is asked for, and the Bcache status exactly
\* when the Dcache misses.
C25_NarrowStoreProbesCache ==
    [][\A i \in Slots :
          (/\ LoadTakenUp(i)
           /\ \E j \in Slots : NarrowerAtSameAddress(lq[i], sq[j])
           /\ \A j \in Slots :
                 (SQInProcess(sq[j]) /\ sq[j].virtAddress = lq[i].virtAddress) =>
                     NarrowerAtSameAddress(lq[i], sq[j])) =>
              /\ ~tc'[i].olderStore
              /\ "Dcache_Status" \in tc'[i].calls
              /\ dcValid => "Bcache_Status" \notin tc'[i].calls
              /\ "Bcache_Status" \notin tc'[i].calls => dcValid'
              /\ tc'[i].calls \cap {"DcacheRead", "Add_MAF"} # {}]_vars

\* A quadword load was probed through both caches while a byte-wide store
\* to its address, issued after it, was in flight.
C25_Witness ==
    /\ call.fn = "Process_Q"
    /\ \E i, j \in Slots :
          /\ lq[i].instr.opcode = "LDQ"
          /\ sq[j].state = "SQWritePending"
          /\ sq[j].virtAddress = lq[i].virtAddress
          /\ sq[j].len < lq[i].len
          /\ sq[j].instr.uniqueID > lq[i].instr.uniqueID
          /\ ~tc[i].olderStore
          /\ {"Dcache_Status", "Bcache_Status"} \subseteq tc[i].calls

\* ------------------------------------------------------------------- C26
\* C26: a load-locked load (LDL_L, LDQ_L) that store forwarding supplies the
\* value of still accesses the cache, to register its lock, before it is
\* LQComplete: TryCaches never returns with such an entry completed by
\* forwarding and no cache function called for it.
C26_LoadLockedTouchesCache ==
    [][\A i \in Slots :
          (/\ ForwardedInPass(i)
           /\ lq[i].instr.opcode \in LockedLoadOps
           /\ tc'[i].state = "LQComplete") =>
              tc'[i].calls \cap {"Dcache_Status", "DcacheRead"} # {}]_vars

\* ------------------------------------------------------------------- C27
\* C27: an LQ entry is LQComplete only with destv materialized: a load the
\* pass sends through the caches is LQComplete when TryCaches returns only if
\* AXP_DcacheRead delivered the data, and destv then holds the load's width
\* of the line; a read that failed does not produce LQComplete.
C27_CompleteOnlyWithData ==
    [][\A i \in Slots :
          (LoadTakenUp(i) /\ ~tc'[i].olderStore) =>
              /\ tc'[i].read = "failed" => tc'[i].state # "LQComplete"
              /\ tc'[i].state = "LQComplete" =>
                    /\ tc'[i].read = "ok"
                    /\ lq'[i].instr.destv = LowBytes(MemData, lq'[i].len)]_vars

\* ------------------------------------------------------------------- C28
\* C28: every LQ entry a pass advances to LQComplete, by forwarding or by a
\* cache hit, is finalized in that pass: at its end the instruction is
\* WaitingRetirement and the slot QNotInUse, and no LQ entry is ever left in
\* LQComplete.
C28_LoadsFinalizedInPass ==
    /\ [][\A i \in Slots :
            (LoadTakenUp(i) /\ tc'[i].state = "LQComplete") =>
                /\ lq'[i].state = "QNotInUse"
                /\ lq'[i].instr.state = "WaitingRetirement"]_vars
    /\ [](\A i \in Slots : lq[i].state # "LQComplete")

\* Every slot of the LQ held a load that a pass completed by a cache hit and
\* finalized: TryCaches left it LQComplete, the pass left the slot free and
\* the instruction ready to retire.
C28_Witness ==
    /\ call.fn = "Process_Q"
    /\ \A i \in Slots :
          /\ tc[i].state = "LQComplete"
          /\ "DcacheRead" \in tc[i].calls
          /\ lq[i].state = "QNotInUse"
          /\ lq[i].instr.state = "WaitingRetirement"
          /\ lq[i].instr.uniqueID # 0

\* ------------------------------------------------------------------- C30
\* C30: a pass dispatches the SQ on the store states: an entry in Initial
\* whose address translates is moved to SQWritePending, an entry in SQReady
\* (its instruction retired) is committed and leaves SQReady for SQComplete
\* or, finalized, QNotInUse; the pass skips no entry in SQReady.
C30_StoreDispatch ==
    [][\A i \in Slots :
          /\ (PassNow /\ sq[i].state = "Initial" /\ AXP_va2pa(sq[i].virtAddress) # 0) =>
                sq'[i].state = "SQWritePending"
          /\ (PassNow /\ sq[i].state = "SQReady") =>
                sq'[i].state \in {"SQComplete", "QNotInUse"}]_vars

\* ------------------------------------------------------------------- C31
\* The iterations of a whole pass: the LQ slots in increasing order, then the
\* SQ slots in increasing order.
PassOrder ==
    [k \in 1 .. 2 * AXP_MBOX_QUEUE_LEN |->
        IF k <= AXP_MBOX_QUEUE_LEN
        THEN <<"LQ", k - 1>>
        ELSE <<"SQ", k - 1 - AXP_MBOX_QUEUE_LEN>>]

\* C31: a pass handles every LQ slot once, in increasing order, and only then
\* every SQ slot once, in increasing order, and ends; the SQ is as it was
\* until all the LQ slots have been handled.
C31_PassOrder ==
    [][PassNow =>
          \A wild \in [WildSlots -> WildReads] :
              /\ ~PassResult(wild).crashed => PassResult(wild).visits = PassOrder
              /\ LQ_Loop(Machine, 0, wild).sq = sq]_vars

\* A pass found a load and a store published: it left the load translated
\* or handed back and the store translated.
C31_Witness ==
    /\ call.fn = "Process_Q"
    /\ \E i, j \in Slots :
          /\ lq[i].instr.uniqueID # 0
          /\ lq[i].state \in {"LQReadPending", "QNotInUse"}
          /\ sq[j].state = "SQWritePending"

\* ------------------------------------------------------------------- C32
\* Issue thread t gives the signal of its publication.
SignalNow(t) == pc[t] = "pub_unlock" /\ pc'[t] = "pub_release"

\* Issue thread t releases mBoxMutex.
ReleaseNow(t) == mBoxMutex = t /\ mBoxMutex' # t

\* No publication is missed: with mBoxMutex free and an entry published and
\* not yet taken up, the worker is not waiting on mBoxCondition.
NoMissedPublication ==
    (mBoxMutex = NoThread /\ Actionable /\ ~crashed) => mBoxCondition # "waiting"

\* C32: every ReadMem and WriteMem call gives the signal once, as the owner of
\* mBoxMutex, after it set the entry's state to Initial and before it releases
\* mBoxMutex; the worker is never left waiting on mBoxCondition with
\* mBoxMutex free while a published entry is Initial.
C32_SignalUnderMutex ==
    [][/\ NoMissedPublication'
       /\ \A t \in Threads :
             /\ SignalNow(t) =>
                   /\ mBoxMutex = t /\ mBoxMutex' = t
                   /\ lq[retVal[t]].state = "Initial" \/ sq[retVal[t]].state = "Initial"
                   /\ mBoxCondition' # "waiting"
             /\ ReleaseNow(t) => pc[t] = "pub_release"]_vars

\* A publication woke the waiting worker: the entry is Initial, the signal is
\* given, mBoxMutex is free again and the worker has not yet made its pass.
C32_Witness ==
    /\ mBoxCondition = "woken"
    /\ mBoxMutex = NoThread
    /\ \E i \in Slots : lq[i].state = "Initial"
    /\ \E i \in Slots : sq[i].state = "SQWritePending"

\* ------------------------------------------------------------------- C33
\* The number of bytes the instruction with opcode op reads or writes.
OpWidth(op) ==
    CASE op = "LDBU" -> 1
      [] op = "LDL_L" -> 4
      [] op \in {"LDQ", "LDQ_L", "STQ"} -> 8

\* C33: an entry whose len is read carries the width of its own
\* instruction: when a pass takes up a load, the load goes on with the len
\* of its opcode, and every in-flight store at the load's address, whose len
\* the forwarding test reads, has the len of its opcode.
C33_LenIsOpcodeWidth ==
    [][\A i \in Slots :
          LoadTakenUp(i) =>
              /\ lq'[i].len = OpWidth(lq[i].instr.opcode)
              /\ \A j \in Slots :
                    (SQInProcess(sq[j]) /\ sq[j].virtAddress = lq[i].virtAddress) =>
                        sq[j].len = OpWidth(sq[j].instr.opcode)]_vars

\* ------------------------------------------------------------------- C34
\* C34: for an HW_LD load the initialization sets len to 4 if and only if
\* instr.len_stall equals AXP_HW_LD_LONGWORD, to 8 otherwise, and leaves
\* instr.len_stall as it was.
C34_HwLdLen ==
    [][\A i \in Slots :
          (PassNow /\ lq[i].state = "Initial" /\ lq[i].instr.opcode = "HW_LD") =>
              /\ lq'[i].len = IF lq[i].instr.len_stall = AXP_HW_LD_LONGWORD
                              THEN 4 ELSE 8
              /\ lq'[i].instr.len_stall = lq[i].instr.len_stall]_vars

\* ------------------------------------------------------------------- C35
\* The steps of the life of an LQ entry.
LQEdges ==
    { <<"QNotInUse", "Assigned">>, <<"Assigned", "Initial">>,
      <<"Initial", "LQReadPending">>, <<"LQReadPending", "LQComplete">>,
      <<"LQComplete", "QNotInUse">> }

\* The states of an LQ entry that is published and not yet handed back.
LQInFlight == {"Initial", "LQReadPending", "LQComplete"}

\* C35: the state of an LQ entry changes only along QNotInUse, Assigned,
\* Initial, LQReadPending, LQComplete, QNotInUse, or from Initial to QNotInUse
\* on a fault; a pass that hands a load back took it through LQReadPending
\* and LQComplete; and an entry in Initial, LQReadPending or LQComplete is
\* given no other instruction or address.
C35_LQStateOrder ==
    [][\A i \in Slots :
          /\ lq'[i].state # lq[i].state =>
                \/ <<lq[i].state, lq'[i].state>> \in LQEdges
                \/ /\ call'.fn = "Process_Q"
                   /\ lq[i].state = "Initial"
                   /\ lq'[i].state = "QNotInUse"
                   /\ \/ AXP_va2pa(lq[i].virtAddress) = 0
                      \/ tc'[i].state = "LQComplete"
          /\ lq[i].state \in LQInFlight =>
                /\ lq'[i].instr.uniqueID = lq[i].instr.uniqueID
                /\ lq'[i].virtAddress = lq[i].virtAddress]_vars

\* One load went the whole way and was handed back, the other waits for its
\* line in LQReadPending.
C35_Witness ==
    \E i, j \in Slots :
        /\ lq[i].state = "QNotInUse"
        /\ lq[i].instr.state = "WaitingRetirement"
        /\ tc[i].state = "LQComplete"
        /\ lq[j].state = "LQReadPending"

\* ------------------------------------------------------------------- C36
\* C36: the slot a successful GetLQSlot or GetSQSlot returns was in state
\* QNotInUse just before the call, and every slot from lqNext (sqNext) on is
\* in state QNotInUse.
C36_AllocatedSlotWasFree ==
    [][/\ (call'.fn = "GetLQSlot" /\ call'.ret # AXP_MBOX_QUEUE_LEN) =>
             lq[call'.ret].state = "QNotInUse"
       /\ (call'.fn = "GetSQSlot" /\ call'.ret # AXP_MBOX_QUEUE_LEN) =>
             sq[call'.ret].state = "QNotInUse"
       /\ \A i \in Slots :
             /\ i >= lqNext' => lq'[i].state = "QNotInUse"
             /\ i >= sqNext' => sq'[i].state = "QNotInUse"]_vars

\* The allocator just returned the last slot of the SQ while the store of
\* the first slot is in flight, and the LQ has a load in flight and a slot
\* left.
C36_Witness ==
    /\ call.fn = "GetSQSlot"
    /\ call.ret = AXP_MBOX_QUEUE_LEN - 1
    /\ sq[0].state = "SQWritePending"
    /\ sq[call.ret].state = "Assigned"
    /\ lq[0].state = "LQReadPending"
    /\ lqNext = 1

\* ------------------------------------------------------------------- C37
\* The events raised for the instruction with this uniqueID.
EventsOf(uid) == {k \in 1 .. Len(events) : events[k].uniqueID = uid}

\* C37: for a load published by one ReadMem call AXP_21264_Ibox_Event is
\* raised at most once, however many passes follow.
C37_OneEventPerLoad ==
    \A i \in Slots :
        lq[i].instr.uniqueID # 0 => Cardinality(EventsOf(lq[i].instr.uniqueID)) <= 1

\* ------------------------------------------------------------------- C38
\* The number of requests for LQ slot i in the MAF and in the IOWB.
RequestCount(mq, iq, i) == Cardinality(RequestsOf(mq, i)) + Cardinality(RequestsOf(iq, i))

\* C38: for a published load at most one request is enqueued, in the MAF or,
\* for an I/O load, in the IOWB: only the pass that takes the load up out of
\* Initial adds a request for its slot, it adds one, to one of the two queues,
\* and leaves the load out of Initial; no later pass adds another.
C38_OneRequestPerLoad ==
    [][\A i \in Slots :
          /\ RequestCount(maf', iowb', i) <= RequestCount(maf, iowb, i) + 1
          /\ RequestCount(maf', iowb', i) > RequestCount(maf, iowb, i) =>
                /\ call'.fn = "Process_Q"
                /\ lq[i].state = "Initial"
                /\ lq'[i].state = "LQReadPending"
                /\ RequestCount(maf, iowb, i) = 0
                /\ lq'[i].IOflag <=> Cardinality(RequestsOf(iowb', i)) = 1]_vars

\* After a pass the memory load of one slot waits with its one MAF request
\* and the I/O load of the other with its one IOWB request.
C38_Witness ==
    /\ call.fn = "Process_Q"
    /\ \E i, j \in Slots :
          /\ lq[i].state = "LQReadPending" /\ ~lq[i].IOflag
          /\ Cardinality(RequestsOf(maf, i)) = 1
          /\ RequestsOf(iowb, i) = {}
          /\ lq[j].state = "LQReadPending" /\ lq[j].IOflag
          /\ Cardinality(RequestsOf(iowb, j)) = 1
          /\ RequestsOf(maf, j) = {}

\* ------------------------------------------------------------------- C39
\* C39: the entries whose instr the scheduler dereferences have one: every
\* LQ entry in state Initial and every SQ entry in state Initial,
\* SQWritePending or SQComplete has an instr that is not NULL.
C39_InstrSetWhenDereferenced ==
    \A i \in Slots :
        /\ lq[i].state = "Initial" => lq[i].instr # NullInstr
        /\ sq[i].state \in {"Initial", "SQWritePending", "SQComplete"} =>
              sq[i].instr # NullInstr

\* A load was just published next to a store a pass has already translated;
\* each carries the instruction it was published with.
C39_Witness ==
    /\ call.fn = "ReadMem"
    /\ lq[call.slot].state = "Initial"
    /\ lq[call.slot].instr = call.instr
    /\ call.instr.uniqueID # 0
    /\ \E j \in Slots : sq[j].state = "SQWritePending" /\ sq[j].instr.uniqueID # 0

\* ------------------------------------------------------------------- C40
\* C40: a ReadMem or WriteMem call that is given AXP_MBOX_QUEUE_LEN as its
\* slot changes no entry of the LQ or of the SQ and nothing else of the cpu.
C40_SentinelCallChangesNothing ==
    [][(call'.fn \in {"ReadMem", "WriteMem"} /\ call'.slot = AXP_MBOX_QUEUE_LEN) =>
          /\ lq' = lq
          /\ sq' = sq
          /\ ~crashed'
          /\ UNCHANGED <<lqNext, sqNext, dcValid, bcValid, maf, iowb, events>>]_vars

====
